---- MODULE Spec2Model ----
(***************************************************************************)
(* CostLens SDK: the routing-and-resilience core of src/index.ts           *)
(* (CostLens: wrapOpenAI / wrapAnthropic create, the in-process cache,     *)
(* retry / fallback, the tracking circuit breaker, the cost estimator and  *)
(* the model router) together with src/qualityDetector.ts.                 *)
(*                                                                         *)
(* Representation.                                                         *)
(*  - A model identifier is the sequence of the tokens of its name, so     *)
(*    that String.includes is a real sub-sequence test.                    *)
(*  - A message content is [len, ws, words]: its length in characters,     *)
(*    the number of those characters that are leading/trailing            *)
(*    whitespace, and the set of the keywords tested by the routers'       *)
(*    regular expressions that occur in it.                                *)
(*  - Money is in units of 1e-8 dollar (prices are in cents per million    *)
(*    tokens), times are in milliseconds.                                  *)
(***************************************************************************)
EXTENDS Integers, Sequences, FiniteSets, TLC

\* The absent value (undefined / null) of an optional field: of a string,
\* of a number, of an object, of a model identifier, of a list of them.
NoVal == "undefined"
None == -1
Nothing == [undefined |-> TRUE]
NoModel == <<"undefined">>
NoModels == <<NoModel>>

(***************************************************************************)
(* Model identifiers                                                       *)
(***************************************************************************)
GPT == <<"gpt">>
VISION == <<"vision">>
CLAUDE == <<"claude">>
GPT_4 == <<"gpt", "-", "4">>
GPT_4O == <<"gpt", "-", "4", "o">>
GPT_4_TURBO == <<"gpt", "-", "4", "-", "turbo">>
GPT_35_TURBO == <<"gpt", "-", "3", ".", "5", "-", "turbo">>
CLAUDE_35_SONNET == <<"claude", "-", "3", ".", "5", "-", "sonnet">>
CLAUDE_3_OPUS == <<"claude", "-", "3", "-", "opus">>
CLAUDE_3_SONNET == <<"claude", "-", "3", "-", "sonnet">>
CLAUDE_3_HAIKU == <<"claude", "-", "3", "-", "haiku">>
GEMINI_15_FLASH == <<"gemini", "-", "1", ".", "5", "-", "flash">>
GEMINI_15_PRO == <<"gemini", "-", "1", ".", "5", "-", "pro">>
DEEPSEEK_V3 == <<"deepseek", "-", "v", "3">>
DEEPSEEK_R1 == <<"deepseek", "-", "r", "1">>
DEEPSEEK_CHAT == <<"deepseek", "-", "chat">>
DEEPSEEK_REASONER == <<"deepseek", "-", "reasoner">>

\* String.prototype.includes on identifiers.
Includes(s, k) ==
    \E i \in 1..(Len(s) - Len(k) + 1) : SubSeq(s, i, i + Len(k) - 1) = k

\* for (const [key, value] of Object.entries(table)) if (model.includes(key)) return value
RECURSIVE FirstMatch(_, _, _)
FirstMatch(table, model, dflt) ==
    IF table = <<>> THEN dflt
    ELSE IF Includes(model, table[1][1]) THEN table[1][2]
    ELSE FirstMatch(Tail(table), model, dflt)

(***************************************************************************)
(* Messages                                                                *)
(***************************************************************************)
RECURSIVE SumLen(_)
SumLen(messages) ==
    IF messages = <<>> THEN 0
    ELSE messages[1].content.len + SumLen(Tail(messages))

\* messages.map(m => m.content).join(' ').length
JoinedLength(messages) ==
    IF messages = <<>> THEN 0 ELSE SumLen(messages) + Len(messages) - 1

\* The keywords occurring in messages.map(m => m.content).join(' ').toLowerCase()
TextWords(messages) ==
    UNION {messages[i].content.words : i \in 1..Len(messages)}

\* regex.test(text) for a regular expression that is an alternation of keywords
Test(keywords, messages) == TextWords(messages) \cap keywords # {}

(***************************************************************************)
(* QualityDetector (src/qualityDetector.ts); scores are in tenths          *)
(***************************************************************************)
Clamp01(x) == IF x < 0 THEN 0 ELSE IF x > 10 THEN 10 ELSE x

QD_estimateComplexity(messages) ==
    Clamp01(2
        + (IF JoinedLength(messages) > 1000 THEN 3 ELSE 0)
        + (IF Test({"complex", "advanced", "detailed", "comprehensive"}, messages)
           THEN 4 ELSE 0)
        + (IF Test({"analyze", "evaluate", "compare", "critique"}, messages)
           THEN 3 ELSE 0)
        - (IF Test({"simple", "basic", "quick", "easy"}, messages) THEN 3 ELSE 0))

QD_detectTaskType(messages) ==
    (IF Test({"simple", "basic", "quick", "easy", "straightforward"}, messages)
     THEN {"simple"} ELSE {})
    \cup (IF Test({"code", "programming", "function"}, messages)
          THEN {"coding"} ELSE {})
    \cup (IF Test({"write", "creative", "story"}, messages)
          THEN {"writing"} ELSE {})

QD_isCritical(messages) ==
    Test({"critical", "important", "medical", "legal", "financial", "safety",
          "production", "accurate", "precise"}, messages)

QD_getOptimalSimpleModel(requestedModel, taskTypes) ==
    IF "coding" \in taskTypes THEN CLAUDE_3_HAIKU
    ELSE IF "writing" \in taskTypes THEN GPT_35_TURBO
    ELSE IF "math" \in taskTypes THEN GPT_35_TURBO
    ELSE GPT_35_TURBO

QD_getOptimalMediumModel(requestedModel, taskTypes) ==
    IF "coding" \in taskTypes /\ Includes(requestedModel, GPT_4)
        THEN CLAUDE_35_SONNET
    ELSE IF "writing" \in taskTypes /\ Includes(requestedModel, GPT_4)
        THEN CLAUDE_35_SONNET
    ELSE IF "analysis" \in taskTypes /\ requestedModel = GPT_4 THEN GPT_4O
    ELSE IF Includes(requestedModel, CLAUDE_3_OPUS) THEN CLAUDE_35_SONNET
    ELSE requestedModel

\* shouldRoute without the criticality test.
QD_shouldRoute_complexityOnly(requestedModel, messages) ==
    LET complexity == QD_estimateComplexity(messages)
        taskType == QD_detectTaskType(messages)
    IN  IF complexity > 8
        THEN [shouldRoute |-> FALSE, targetModel |-> requestedModel,
              confidence |-> 90]
        ELSE IF complexity < 3
        THEN [shouldRoute |-> TRUE,
              targetModel |-> QD_getOptimalSimpleModel(requestedModel, taskType),
              confidence |-> 85]
        ELSE IF complexity < 6
        THEN LET targetModel == QD_getOptimalMediumModel(requestedModel, taskType)
             IN  [shouldRoute |-> targetModel # requestedModel,
                  targetModel |-> targetModel, confidence |-> 80]
        ELSE [shouldRoute |-> FALSE, targetModel |-> requestedModel,
              confidence |-> 70]

\* confidence is in hundredths
QD_shouldRoute(requestedModel, messages) ==
    LET complexity == QD_estimateComplexity(messages)
        taskType == QD_detectTaskType(messages)
        isCritical == QD_isCritical(messages)
    IN  IF complexity > 8 \/ isCritical
        THEN [shouldRoute |-> FALSE, targetModel |-> requestedModel,
              confidence |-> 90]
        ELSE IF complexity < 3
        THEN [shouldRoute |-> TRUE,
              targetModel |-> QD_getOptimalSimpleModel(requestedModel, taskType),
              confidence |-> 85]
        ELSE IF complexity < 6
        THEN LET targetModel == QD_getOptimalMediumModel(requestedModel, taskType)
             IN  [shouldRoute |-> targetModel # requestedModel,
                  targetModel |-> targetModel, confidence |-> 80]
        ELSE [shouldRoute |-> FALSE, targetModel |-> requestedModel,
              confidence |-> 70]

(***************************************************************************)
(* Model router (CostLens.selectOptimalModel)                              *)
(***************************************************************************)
estimateComplexity_short(messages) ==
    LET totalLength == SumLen(messages)
        hasSystemPrompt == \E i \in 1..Len(messages) : messages[i].role = "system"
        messageCount == Len(messages)
    IN  IF totalLength < 50 /\ ~hasSystemPrompt /\ messageCount <= 2 THEN "simple"
        ELSE IF totalLength < 500 /\ messageCount <= 5 THEN "medium"
        ELSE "complex"

estimateComplexity(messages) ==
    LET totalLength == SumLen(messages)
        hasSystemPrompt == \E i \in 1..Len(messages) : messages[i].role = "system"
        messageCount == Len(messages)
    IN  IF totalLength < 100 /\ ~hasSystemPrompt /\ messageCount <= 2 THEN "simple"
        ELSE IF totalLength < 500 /\ messageCount <= 5 THEN "medium"
        ELSE "complex"

detectTaskType(messages) ==
    (IF Test({"code", "programming", "function", "debug", "algorithm"}, messages)
     THEN {"coding"} ELSE {})
    \cup (IF Test({"write", "creative", "story", "article", "content"}, messages)
          THEN {"writing"} ELSE {})
    \cup (IF Test({"analyze", "research", "evaluate", "compare"}, messages)
          THEN {"analysis"} ELSE {})
    \cup (IF Test({"translate", "language"}, messages) THEN {"translation"} ELSE {})
    \cup (IF Test({"math", "calculate", "solve", "equation"}, messages)
          THEN {"math"} ELSE {})
    \cup (IF Test({"simple", "basic", "quick", "easy"}, messages)
          THEN {"simple"} ELSE {})

\* The provider-specific rules and the QualityDetector step of
\* selectOptimalModel (everything after the override policy).
\* The built-in rules taking a decision whose confidence is at the bar.
BuiltInRoute_atBar(requestedModel, messages) ==
    LET complexity == estimateComplexity(messages)
        taskType == detectTaskType(messages)
        routingDecision == QD_shouldRoute(requestedModel, messages)
    IN  IF Includes(requestedModel, VISION) THEN requestedModel
        ELSE IF Includes(requestedModel, GPT) /\ complexity = "simple"
                /\ Includes(requestedModel, GPT_4) THEN GPT_35_TURBO
        ELSE IF Includes(requestedModel, GPT) /\ complexity = "medium"
                /\ requestedModel = GPT_4 THEN GPT_4O
        ELSE IF Includes(requestedModel, GPT) /\ "coding" \in taskType
                /\ Includes(requestedModel, GPT_4) THEN CLAUDE_35_SONNET
        ELSE IF Includes(requestedModel, CLAUDE) /\ complexity = "simple"
                /\ Includes(requestedModel, CLAUDE_3_OPUS) THEN CLAUDE_3_HAIKU
        ELSE IF Includes(requestedModel, CLAUDE) /\ complexity = "medium"
                /\ Includes(requestedModel, CLAUDE_3_OPUS) THEN CLAUDE_35_SONNET
        ELSE IF Includes(requestedModel, CLAUDE) /\ complexity = "simple"
                /\ Includes(requestedModel, CLAUDE_3_SONNET) THEN CLAUDE_3_HAIKU
        ELSE IF routingDecision.shouldRoute /\ routingDecision.confidence >= 80
             THEN routingDecision.targetModel
        ELSE requestedModel

BuiltInRoute(requestedModel, messages) ==
    LET complexity == estimateComplexity(messages)
        taskType == detectTaskType(messages)
        routingDecision == QD_shouldRoute(requestedModel, messages)
    IN  IF Includes(requestedModel, VISION) THEN requestedModel
        ELSE IF Includes(requestedModel, GPT) /\ complexity = "simple"
                /\ Includes(requestedModel, GPT_4) THEN GPT_35_TURBO
        ELSE IF Includes(requestedModel, GPT) /\ complexity = "medium"
                /\ requestedModel = GPT_4 THEN GPT_4O
        ELSE IF Includes(requestedModel, GPT) /\ "coding" \in taskType
                /\ Includes(requestedModel, GPT_4) THEN CLAUDE_35_SONNET
        ELSE IF Includes(requestedModel, CLAUDE) /\ complexity = "simple"
                /\ Includes(requestedModel, CLAUDE_3_OPUS) THEN CLAUDE_3_HAIKU
        ELSE IF Includes(requestedModel, CLAUDE) /\ complexity = "medium"
                /\ Includes(requestedModel, CLAUDE_3_OPUS) THEN CLAUDE_35_SONNET
        ELSE IF Includes(requestedModel, CLAUDE) /\ complexity = "simple"
                /\ Includes(requestedModel, CLAUDE_3_SONNET) THEN CLAUDE_3_HAIKU
        ELSE IF routingDecision.shouldRoute /\ routingDecision.confidence > 80
             THEN routingDecision.targetModel
        ELSE requestedModel

\* selectOptimalModel consulting the override policy after the vision rule.
selectOptimalModel_visionFirst(cfg, requestedModel, messages) ==
    IF ~cfg.smartRouting THEN requestedModel
    ELSE IF Includes(requestedModel, VISION) THEN requestedModel
    ELSE IF cfg.routingPolicy \notin {NoModel, <<"throws">>, <<"null">>, <<>>}
         THEN cfg.routingPolicy
    ELSE BuiltInRoute(requestedModel, messages)

\* routingPolicy is NoModel (none configured), <<"throws">>, <<"null">>
\* (the policy returns null) or the string the policy returns, <<>> being
\* the empty string, which `routed && ...` takes for no decision.
selectOptimalModel(cfg, requestedModel, messages) ==
    IF ~cfg.smartRouting THEN requestedModel
    ELSE IF cfg.routingPolicy \notin {NoModel, <<"throws">>, <<"null">>, <<>>}
         THEN cfg.routingPolicy
    ELSE BuiltInRoute(requestedModel, messages)

(***************************************************************************)
(* Cost estimator                                                          *)
(***************************************************************************)
\* Math.ceil(tokens * 0.3): the IEEE product is exact enough for the
\* ceiling to equal that of 3*tokens/10 for every token count below 2*10^6.
CeilThreeTenths(tokens) == (3 * tokens + 9) \div 10

Max(a, b) == IF a >= b THEN a ELSE b
Min(a, b) == IF a <= b THEN a ELSE b

\* estimateTokens without the floor of one token.
estimateTokens_unfloored(messages, type) ==
    LET base == ((JoinedLength(messages) + 3) \div 4) + Len(messages) * 4
    IN  IF type = "output" THEN CeilThreeTenths(base) ELSE base

estimateTokens(messages, type) ==
    LET base == ((JoinedLength(messages) + 3) \div 4) + Len(messages) * 4
        tokens == IF type = "output" THEN CeilThreeTenths(base) ELSE base
    IN  Max(tokens, 1)

\* Prices in cents per million tokens, in the order of declaration.
PricingTable ==
    << <<GPT_4O, [input |-> 250, output |-> 1000]>>,
       <<GPT_4, [input |-> 3000, output |-> 6000]>>,
       <<GPT_4_TURBO, [input |-> 1000, output |-> 3000]>>,
       <<GPT_35_TURBO, [input |-> 50, output |-> 150]>>,
       <<CLAUDE_35_SONNET, [input |-> 300, output |-> 300]>>,
       <<CLAUDE_3_OPUS, [input |-> 1500, output |-> 7500]>>,
       <<CLAUDE_3_SONNET, [input |-> 300, output |-> 1500]>>,
       <<CLAUDE_3_HAIKU, [input |-> 25, output |-> 125]>>,
       <<GEMINI_15_FLASH, [input |-> 100, output |-> 100]>>,
       <<GEMINI_15_PRO, [input |-> 125, output |-> 500]>>,
       <<DEEPSEEK_V3, [input |-> 28, output |-> 42]>>,
       <<DEEPSEEK_R1, [input |-> 28, output |-> 42]>>,
       <<DEEPSEEK_CHAT, [input |-> 28, output |-> 42]>>,
       <<DEEPSEEK_REASONER, [input |-> 28, output |-> 42]>> >>

getModelPricing(model) ==
    FirstMatch(PricingTable, model, [input |-> 100, output |-> 100])

\* In units of 1e-8 dollar: (tokens / 1e6) * (cents / 100).
estimateCost(model, messages) ==
    LET pricing == getModelPricing(model)
    IN  estimateTokens(messages, "input") * pricing.input
        + estimateTokens(messages, "output") * pricing.output

FallbackTable ==
    << <<GPT_4O, <<GPT_4_TURBO, CLAUDE_35_SONNET, GPT_35_TURBO>> >>,
       <<CLAUDE_35_SONNET, <<GPT_4O, CLAUDE_3_SONNET, GPT_35_TURBO>> >>,
       <<GEMINI_15_FLASH, <<GEMINI_15_PRO, GPT_35_TURBO, CLAUDE_3_HAIKU>> >>,
       <<GPT_4, <<GPT_4O, GPT_4_TURBO, GPT_35_TURBO>> >>,
       <<GPT_4_TURBO, <<GPT_4O, GPT_4, GPT_35_TURBO>> >>,
       <<GPT_35_TURBO, <<GPT_4O, GEMINI_15_FLASH, CLAUDE_3_HAIKU>> >>,
       <<CLAUDE_3_OPUS, <<CLAUDE_35_SONNET, CLAUDE_3_SONNET, GPT_4O>> >>,
       <<CLAUDE_3_SONNET, <<CLAUDE_35_SONNET, CLAUDE_3_HAIKU, GPT_35_TURBO>> >>,
       <<CLAUDE_3_HAIKU, <<GPT_35_TURBO, GEMINI_15_FLASH, CLAUDE_3_SONNET>> >>,
       <<GEMINI_15_PRO, <<GEMINI_15_FLASH, GPT_4O, GPT_35_TURBO>> >>,
       <<DEEPSEEK_V3,
         <<DEEPSEEK_CHAT, DEEPSEEK_REASONER, GEMINI_15_FLASH, GPT_35_TURBO>> >>,
       <<DEEPSEEK_R1,
         <<DEEPSEEK_CHAT, DEEPSEEK_REASONER, GEMINI_15_FLASH, GPT_35_TURBO>> >>,
       <<DEEPSEEK_CHAT,
         <<DEEPSEEK_REASONER, DEEPSEEK_V3, GEMINI_15_FLASH, GPT_35_TURBO>> >>,
       <<DEEPSEEK_REASONER,
         <<DEEPSEEK_CHAT, DEEPSEEK_V3, GEMINI_15_FLASH, GPT_35_TURBO>> >> >>

getDefaultFallbacks(model) == FirstMatch(FallbackTable, model, <<>>)

\* calculateSavings; savingsPercentage is compared through
\* PercentageAbove, since (savings / currentCost) * 100 is not an integer.
calculateSavings(cfg, requestedModel, messages) ==
    LET currentCost == estimateCost(requestedModel, messages)
        recommendedModel == selectOptimalModel(cfg, requestedModel, messages)
        optimizedCost == estimateCost(recommendedModel, messages)
    IN  [currentCost |-> currentCost, optimizedCost |-> optimizedCost,
         savings |-> currentCost - optimizedCost,
         recommendedModel |-> recommendedModel]

\* savingsPercentage > p, for currentCost > 0 (savingsPercentage is 0 otherwise)
PercentageAbove(s, p) ==
    IF s.currentCost > 0 THEN s.savings * 100 > p * s.currentCost ELSE 0 > p

(***************************************************************************)
(* Model enforcement (CostLens.validateModelConsistency)                   *)
(***************************************************************************)
\* modelHierarchy: for each key, its allowed downgrades.
ModelHierarchy ==
    << <<GPT_4, <<GPT_4O, GPT_4_TURBO, GPT_35_TURBO>> >>,
       <<GPT_4O, <<GPT_4_TURBO, GPT_35_TURBO>> >>,
       <<GPT_4_TURBO, <<GPT_35_TURBO>> >>,
       <<CLAUDE_3_OPUS, <<CLAUDE_35_SONNET, CLAUDE_3_SONNET, CLAUDE_3_HAIKU>> >>,
       <<CLAUDE_35_SONNET, <<CLAUDE_3_SONNET, CLAUDE_3_HAIKU>> >>,
       <<CLAUDE_3_SONNET, <<CLAUDE_3_HAIKU>> >> >>

\* modelHierarchy[requestedModel] || []: a lookup by the exact key
AllowedDowngrades(requestedModel) ==
    IF \E i \in 1..Len(ModelHierarchy) : ModelHierarchy[i][1] = requestedModel
    THEN ModelHierarchy[CHOOSE i \in 1..Len(ModelHierarchy) :
                           ModelHierarchy[i][1] = requestedModel][2]
    ELSE <<>>

validateModelConsistency(requestedModel, actualModel) ==
    IF requestedModel = actualModel THEN TRUE
    ELSE \E i \in 1..Len(AllowedDowngrades(requestedModel)) :
            AllowedDowngrades(requestedModel)[i] = actualModel

(***************************************************************************)
(* State                                                                   *)
(***************************************************************************)
VARIABLES
    config,             \* CostLens.config, fixed at construction
    now,                \* Date.now()
    cache,              \* CostLens.cache: the Map's entries in insertion order
    optimizationCache,  \* CostLens.optimizationCache: set of <<content, optimized>>
    apiFailureCount,    \* CostLens.apiFailureCount
    lastApiFailure,     \* CostLens.lastApiFailure
    call,               \* the create calls: position, locals and observed events
    trk,                \* direct calls of the public tracking API (trackError, ...)
    sink,               \* the tracking sink's view of the requests it answered
    probe               \* direct calls of selectOptimalModel / calculateSavings

vars == <<config, now, cache, optimizationCache, apiFailureCount,
          lastApiFailure, call, trk, sink, probe>>

\* Bounds of the model.
NumCalls == 2
NumTrackers == 2
MaxTime == 130000
MaxMessages == 3
MaxTurns == 6
MaxKeys == 1001
Calls == 1..NumCalls
Trackers == 1..NumTrackers

\* Program constants.
circuitBreakerThreshold == 5
circuitBreakerTimeout == 60000
trackTimeout == 5000
maxCacheSize == 1000
defaultTTL == 3600000
defaultMaxRetries == 3
qualityGate == 70
backoffBase == 1000

(***************************************************************************)
(* In-process cache                                                        *)
(***************************************************************************)
\* content.trim()
Trim(content) == [content EXCEPT !.len = content.len - content.ws, !.ws = 0]

\* `${provider}:${JSON.stringify(normalized)}`; temperature is in tenths
getCacheKey(provider, params) ==
    <<provider, params.model,
      [i \in 1..Len(params.messages) |->
          [role |-> params.messages[i].role,
           content |-> Trim(params.messages[i].content)]],
      IF params.temperature \in {None, 0} THEN 7 ELSE params.temperature,
      params.max_tokens>>

CacheIndex(ch, key) ==
    IF \E i \in 1..Len(ch) : ch[i].key = key
    THEN CHOOSE i \in 1..Len(ch) : ch[i].key = key
    ELSE 0

RemoveAt(ch, i) == SubSeq(ch, 1, i - 1) \o SubSeq(ch, i + 1, Len(ch))

\* getFromCache with a sliding expiry: a hit restarts the entry's lifetime.
getFromCache_sliding(ch, key, t) ==
    LET i == CacheIndex(ch, key)
    IN  IF i = 0 THEN [value |-> Nothing, cache |-> ch]
        ELSE IF t - ch[i].timestamp > ch[i].ttl
             THEN [value |-> Nothing, cache |-> RemoveAt(ch, i)]
        ELSE [value |-> ch[i].result,
              cache |-> [ch EXCEPT ![i].lastAccessed = t, ![i].timestamp = t]]

\* Returns the value (Nothing on a miss) and the cache after the lookup.
getFromCache(ch, key, t) ==
    LET i == CacheIndex(ch, key)
    IN  IF i = 0 THEN [value |-> Nothing, cache |-> ch]
        ELSE IF t - ch[i].timestamp > ch[i].ttl
             THEN [value |-> Nothing, cache |-> RemoveAt(ch, i)]
        ELSE [value |-> ch[i].result,
              cache |-> [ch EXCEPT ![i].lastAccessed = t]]

\* entries.sort((a, b) => a.lastAccessed - b.lastAccessed), a stable sort:
\* the entries by ascending lastAccessed, those of equal lastAccessed in
\* the order of the Map. `times` are the lastAccessed values still to place.
RECURSIVE SortFrom(_, _)
SortFrom(ch, times) ==
    IF times = {} THEN <<>>
    ELSE LET t == CHOOSE x \in times : \A y \in times : x <= y
         IN  SelectSeq(ch, LAMBDA e : e.lastAccessed = t)
                 \o SortFrom(ch, times \ {t})

SortByAccess(ch) == SortFrom(ch, {ch[i].lastAccessed : i \in 1..Len(ch)})

\* setCache evicting only above the maximum.
setCache_above(ch, key, result, ttl, t) ==
    LET toRemove == (maxCacheSize * 2) \div 10
        sorted == IF Len(ch) > maxCacheSize THEN SortByAccess(ch) ELSE <<>>
        oldest == {sorted[i].key : i \in 1..Min(toRemove, Len(sorted))}
        kept == SelectSeq(ch, LAMBDA e : e.key \notin oldest)
        entry == [key |-> key, result |-> result, timestamp |-> t,
                  ttl |-> ttl, lastAccessed |-> t]
        i == CacheIndex(kept, key)
    IN  IF i = 0 THEN Append(kept, entry) ELSE [kept EXCEPT ![i] = entry]

\* setCache adding an entry whether or not the key is present.
setCache_append(ch, key, result, ttl, t) ==
    LET toRemove == (maxCacheSize * 2) \div 10
        sorted == IF Len(ch) >= maxCacheSize THEN SortByAccess(ch) ELSE <<>>
        oldest == {sorted[i].key : i \in 1..Min(toRemove, Len(sorted))}
        kept == SelectSeq(ch, LAMBDA e : e.key \notin oldest)
        entry == [key |-> key, result |-> result, timestamp |-> t,
                  ttl |-> ttl, lastAccessed |-> t]
    IN  Append(kept, entry)

setCache(ch, key, result, ttl, t) ==
    LET toRemove == (maxCacheSize * 2) \div 10
        sorted == IF Len(ch) >= maxCacheSize THEN SortByAccess(ch) ELSE <<>>
        oldest == {sorted[i].key : i \in 1..Min(toRemove, Len(sorted))}
        kept == SelectSeq(ch, LAMBDA e : e.key \notin oldest)
        entry == [key |-> key, result |-> result, timestamp |-> t,
                  ttl |-> ttl, lastAccessed |-> t]
        i == CacheIndex(kept, key)
    IN  IF i = 0 THEN Append(kept, entry) ELSE [kept EXCEPT ![i] = entry]

(***************************************************************************)
(* Circuit breaker                                                         *)
(***************************************************************************)
isApiDown_inclusive(count, last, t) ==
    count >= circuitBreakerThreshold /\ t - last <= circuitBreakerTimeout

\* apiFailureCount >= circuitBreakerThreshold &&
\*     Date.now() - lastApiFailure < circuitBreakerTimeout
isApiDown(count, last, t) ==
    count >= circuitBreakerThreshold /\ t - last < circuitBreakerTimeout

\* The outcomes of the tracking request: a 2xx answer, a 401/403 answer,
\* another non-2xx answer, a network error.
TrackAnswers == {"ok", "unauthorized", "failed", "neterr"}

\* What the sink saw: the number of requests that failed since the last one
\* it answered with 2xx (counted up to the threshold), the time of the last failure.
SinkAfter(answer) ==
    IF answer = "ok" THEN [sink EXCEPT !.streak = 0]
    ELSE [streak |-> Min(sink.streak + 1, circuitBreakerThreshold),
          lastFailure |-> now']

\* trackRun not counting a request it abandoned itself.
AfterTrack_quietAbort(answer) ==
    /\ sink' = SinkAfter(answer)
    /\ IF answer = "ok"
       THEN /\ apiFailureCount' = 0
            /\ UNCHANGED lastApiFailure
       ELSE IF answer = "aborted"
       THEN UNCHANGED <<apiFailureCount, lastApiFailure>>
       ELSE /\ apiFailureCount' = apiFailureCount + 1
            /\ lastApiFailure' = now'

\* trackRun keeping the time of the failure that opened the breaker.
AfterTrack_firstFailure(answer) ==
    /\ sink' = SinkAfter(answer)
    /\ IF answer = "ok"
       THEN /\ apiFailureCount' = 0
            /\ UNCHANGED lastApiFailure
       ELSE /\ apiFailureCount' = apiFailureCount + 1
            /\ lastApiFailure' = IF apiFailureCount >= circuitBreakerThreshold
                                 THEN lastApiFailure ELSE now'

\* trackRun after the fetch settled: recordApiFailure / resetApiFailures
AfterTrack(answer) ==
    /\ sink' = SinkAfter(answer)
    /\ IF answer = "ok"
       THEN /\ apiFailureCount' = 0
            /\ UNCHANGED lastApiFailure
       ELSE /\ apiFailureCount' = apiFailureCount + 1
            /\ lastApiFailure' = now'

\* trackRun without the test of the API key.
TrackReaches_anyKey(cfg, count, last, t) == ~isApiDown(count, last, t)

\* trackRun up to the fetch: TRUE when the sink is invoked
TrackReaches(cfg, count, last, t) ==
    cfg.apiKey /\ ~isApiDown(count, last, t)

(***************************************************************************)
(* create: locals, events and outcomes                                     *)
(***************************************************************************)
IdleCall ==
    [pc |-> "idle", wrapper |-> NoVal, originalModel |-> NoModel,
     params |-> Nothing, options |-> Nothing, oi |-> 0, mi |-> 0, i |-> 0,
     chain |-> <<>>, retryError |-> Nothing, lastError |-> Nothing,
     result |-> Nothing, usedModel |-> NoModel, start |-> 0, wake |-> 0,
     after |-> {}, checked |-> 0, answered |-> 0, events |-> <<>>,
     outcome |-> Nothing]

\* Observed events of a call, in order: the wrapped client is invoked, a
\* request is sent to the CostLens backend, a middleware hook runs, the
\* response is scored, a backoff timer is set, the in-process cache hits.
\* Besides them a call notes when it consulted the in-process cache
\* (checked) and when the provider's result arrived (answered).
ProviderEv(model) == [type |-> "provider", model |-> model]
FetchEv(endpoint) == [type |-> "fetch", to |-> endpoint]
HookEv(hook) == [type |-> "hook", hook |-> hook]
QualityEv(score) == [type |-> "quality", score |-> score]
WaitEv(ms) == [type |-> "wait", ms |-> ms]
HitEv(key, value) == [type |-> "hit", key |-> key, value |-> value]
Ev(s, e) == [s EXCEPT !.events = Append(s.events, e)]

\* The positions of the events of a call that are of the given types.
EventsOf(s, types) == {k \in 1..Len(s.events) : s.events[k].type \in types}
IsProvider(e) == e.type = "provider"
IsTrack(e) == e.type = "fetch" /\ e.to = "track"
\* The positions of the provider invocations among the events of a call.
ProviderAt(s) == {k \in 1..Len(s.events) : IsProvider(s.events[k])}
\* The tracking requests of a call.
TrackAt(s) == {k \in 1..Len(s.events) : IsTrack(s.events[k])}

Resolved(s, value) ==
    [s EXCEPT !.pc = "done", !.outcome = [kind |-> "resolved", value |-> value]]
Rejected(s, error) ==
    [s EXCEPT !.pc = "done", !.outcome = [kind |-> "rejected", error |-> error]]

\* this.config.maxRetries || 3
MaxAttempts(cfg) == IF cfg.maxRetries = 0 THEN defaultMaxRetries ELSE cfg.maxRetries

\* runMiddleware(type, data): every configured hook of that type runs, in
\* order; the hooks modelled here return their argument.
RunMiddleware(s, type) ==
    IF type \in config.middleware THEN Ev(s, HookEv(type)) ELSE s

CostCeiling_configFirst(s) ==
    IF config.costLimit \notin {None, 0} THEN config.costLimit
    ELSE IF s.options.maxCost \notin {None, 0} THEN s.options.maxCost
    ELSE None

\* options?.maxCost || self.config.costLimit
CostCeiling(s) ==
    IF s.options.maxCost \notin {None, 0} THEN s.options.maxCost
    ELSE IF config.costLimit \notin {None, 0} THEN config.costLimit
    ELSE None

\* The in-process cache consulted by every call.
UsesLocalCache_always(s) == TRUE

UsesLocalCache(s) ==
    IF s.wrapper = "openai"
    THEN config.enableCache \/ s.options.cacheTTL \notin {None, 0}
    ELSE config.enableCache

\* The key of the in-process lookup before the call.
LookupKey(s) ==
    IF s.wrapper = "openai"
    THEN getCacheKey("openai", [model |-> s.params.model,
             messages |-> s.params.messages, temperature |-> None,
             max_tokens |-> None])
    ELSE getCacheKey("anthropic", s.params)

\* The key under which the accepted result is stored.
StoreKey(s) ==
    IF s.wrapper = "openai"
    THEN getCacheKey("openai", [model |-> s.usedModel,
             messages |-> s.params.messages, temperature |-> None,
             max_tokens |-> None])
    ELSE getCacheKey("anthropic", s.params)

\* The provider is invoked for the model at position mi of the chain.
Invoke(s) ==
    [Ev(s, ProviderEv(s.chain[s.mi + 1])) EXCEPT !.pc = "calling"]

\* const fallbackModels = options?.fallbackModels ||
\*     (self.config.autoFallback ? self.getDefaultFallbacks(params.model) : [])
FallbackModels(s) ==
    IF s.options.fallbackModels # NoModels THEN s.options.fallbackModels
    ELSE IF config.autoFallback THEN getDefaultFallbacks(s.params.model)
    ELSE <<>>

\* From runMiddleware('before') to the first attempt on the primary model.
Dispatch(s) ==
    LET b == RunMiddleware(s, "before")
    IN  Invoke([b EXCEPT !.start = now, !.chain = <<b.params.model>> \o FallbackModels(b),
                         !.mi = 0, !.i = 0, !.usedModel = b.params.model])

RemoteCacheUsed == config.enableCache /\ config.isNode

\* The run record sent to the tracking sink.
RunRecord(s, model, success) ==
    IF s.wrapper = "openai" /\ success
    THEN [provider |-> s.wrapper, model |-> model,
          requestedModel |-> s.originalModel, success |-> success,
          savings |-> IF s.originalModel # s.usedModel
                      THEN estimateCost(s.originalModel, s.params.messages)
                           - estimateCost(s.usedModel, s.params.messages)
                      ELSE 0]
    ELSE [provider |-> s.wrapper, model |-> model, success |-> success]

StartTrack_throws(s, model, success, final) ==
    IF TrackReaches(config, apiFailureCount, lastApiFailure, now)
    THEN [Ev(s, [type |-> "fetch", to |-> "track",
                    data |-> RunRecord(s, model, success)]) EXCEPT
             !.pc = "tracking", !.wake = now + trackTimeout]
    ELSE Rejected(s, [type |-> "tracking"])

\* trackRun up to its fetch, then (sink not invoked) the end of create.
\* `final` is the record of the finished call.
StartTrack(s, model, success, final) ==
    IF TrackReaches(config, apiFailureCount, lastApiFailure, now)
    THEN [Ev(s, [type |-> "fetch", to |-> "track",
                    data |-> RunRecord(s, model, success)]) EXCEPT
             !.pc = "tracking", !.wake = now + trackTimeout]
    ELSE final

OnCacheHit_tracked(s, key, value) ==
    LET h == [Ev(s, HitEv(key, value)) EXCEPT !.result = value]
    IN  StartTrack(h, h.params.model, TRUE, Resolved(h, value))

\* if (localCached) { ...; return localCached; }
OnCacheHit(s, key, value) == Resolved(Ev(s, HitEv(key, value)), value)

\* From the cost-limit check to the next suspension of create.
CostAndCache(c, s0) ==
    LET s == [s0 EXCEPT !.checked = now]
        ceiling == CostCeiling(s)
        key == LookupKey(s)
        got == getFromCache(cache, key, now)
    IN  IF ceiling # None /\ estimateCost(s.params.model, s.params.messages) > ceiling
        THEN /\ call' = [call EXCEPT ![c] = Rejected(s, [type |-> "costLimit"])]
             /\ UNCHANGED cache
        ELSE IF UsesLocalCache(s) /\ got.value # Nothing
        THEN /\ call' = [call EXCEPT ![c] = OnCacheHit(s, key, got.value)]
             /\ cache' = got.cache
        ELSE /\ cache' = IF UsesLocalCache(s) THEN got.cache ELSE cache
             /\ call' = [call EXCEPT ![c] =
                    IF s.wrapper = "openai" /\ RemoteCacheUsed
                    THEN [Ev(s, FetchEv("cacheGet")) EXCEPT !.pc = "remoteGet"]
                    ELSE Dispatch(s)]

\* Routing (the backend said whether routing is enabled), then CostAndCache.
Route(c, s, enabled) ==
    CostAndCache(c,
        IF config.smartRouting /\ enabled
        THEN [s EXCEPT !.params.model =
                  selectOptimalModel(config, s.params.model, s.params.messages)]
        ELSE s)

\* After the prompt optimisation loop: the routing-enabled check of wrapOpenAI.
AfterOptimize(c, s) ==
    IF s.wrapper = "openai" /\ config.smartRouting
    THEN /\ call' = [call EXCEPT ![c] =
                [Ev(s, FetchEv("routing")) EXCEPT !.pc = "routingCheck"]]
         /\ UNCHANGED cache
    ELSE Route(c, s, TRUE)

\* optimizePromptContent is asked for the first message at or after
\* position k whose content is a non-empty string; cached optimisations
\* (oc) are applied without a request.
RECURSIVE OptimizeFrom(_, _, _, _)
OptimizeFrom(c, s, k, oc) ==
    IF k > Len(s.params.messages) THEN AfterOptimize(c, s)
    ELSE LET content == s.params.messages[k].content
         IN  IF content.len = 0 THEN OptimizeFrom(c, s, k + 1, oc)
             ELSE IF \E p \in oc : p[1] = content
             THEN OptimizeFrom(c,
                      [s EXCEPT !.params.messages[k].content =
                          (CHOOSE p \in oc : p[1] = content)[2]],
                      k + 1, oc)
             ELSE /\ call' = [call EXCEPT ![c] =
                         [Ev(s, FetchEv("optimize")) EXCEPT
                             !.pc = "optimizing", !.oi = k]]
                  /\ UNCHANGED cache

(***************************************************************************)
(* create: tracking, caching and the error path                            *)
(***************************************************************************)
\* No result: the onError hooks, trackError, throw lastError.
\* trackError reports params.model (OpenAI) or the current model (Anthropic).
ErrorPath(s) ==
    LET h == RunMiddleware(s, "onError")
        model == IF h.wrapper = "openai" THEN h.params.model ELSE h.chain[h.mi + 1]
    IN  StartTrack(h, model, FALSE, Rejected(h, h.lastError))

\* Save to cache, then (OpenAI, server side) the remote cache, then track.
StoreAndTrack(c, s) ==
    LET stores == IF s.wrapper = "openai" THEN UsesLocalCache(s)
                  ELSE config.enableCache /\ s.options.cacheTTL \notin {None, 0}
        ttlMs == IF s.wrapper = "openai" /\ s.options.cacheTTL = None
                 THEN defaultTTL ELSE s.options.cacheTTL
    IN  /\ cache' = IF stores THEN setCache(cache, StoreKey(s), s.result, ttlMs, now)
                    ELSE cache
        /\ call' = [call EXCEPT ![c] =
               IF s.wrapper = "openai" /\ UsesLocalCache(s) /\ RemoteCacheUsed
               THEN [Ev(s, FetchEv("cacheSet")) EXCEPT !.pc = "remoteSet"]
               ELSE StartTrack(s, s.usedModel, TRUE, Resolved(s, s.result))]

ReissueModel_resolved(s) == s.params.model

\* The model of the quality-gate re-issue: `model: originalModel`.
ReissueModel(s) == s.originalModel

\* The scores (in hundredths) a quality check may return.
Scores == {0, 69, 70, 100}

OnResult_storeFirst(c, s0) ==
    LET s == RunMiddleware(s0, "after")
    IN  IF s.wrapper = "openai" /\ s.originalModel # s.usedModel
        THEN \/ \E score \in Scores :
                  LET q == Ev(s, QualityEv(score))
                  IN  IF score < qualityGate
                      THEN /\ call' = [call EXCEPT ![c] =
                                  [Ev(q, ProviderEv(ReissueModel(q))) EXCEPT
                                      !.pc = "reissue"]]
                           /\ cache' = IF UsesLocalCache(q)
                                       THEN setCache(cache, StoreKey(q), q.result,
                                                     defaultTTL, now)
                                       ELSE cache
                      ELSE StoreAndTrack(c, q)
             \/ /\ config.qualityValidator = "throws"
                /\ call' = [call EXCEPT ![c] =
                       Rejected(Ev(s, QualityEv(None)), [type |-> "validator"])]
                /\ UNCHANGED cache
        ELSE StoreAndTrack(c, s)

\* A provider call produced a result: after hooks, quality gate, cache, track.
OnResult(c, s0) ==
    LET s == RunMiddleware(s0, "after")
    IN  IF s.wrapper = "openai" /\ s.originalModel # s.usedModel
        THEN \/ \E score \in Scores :
                  LET q == Ev(s, QualityEv(score))
                  IN  IF score < qualityGate
                      THEN /\ call' = [call EXCEPT ![c] =
                                  [Ev(q, ProviderEv(ReissueModel(q))) EXCEPT
                                      !.pc = "reissue"]]
                           /\ UNCHANGED cache
                      ELSE StoreAndTrack(c, q)
             \/ /\ config.qualityValidator = "throws"
                /\ call' = [call EXCEPT ![c] =
                       Rejected(Ev(s, QualityEv(None)), [type |-> "validator"])]
                /\ UNCHANGED cache
        ELSE StoreAndTrack(c, s)

\* The error statuses a provider call may reject with (None: no status).
ErrStatuses == {None, 399, 400, 499, 500}

IsClientError(e) == e.status # None /\ e.status >= 400 /\ e.status < 500

OnThrow_firstError(s0, e) ==
    LET s == [s0 EXCEPT !.lastError = IF s0.lastError = Nothing THEN e
                                      ELSE s0.lastError]
        fallbackModels == Tail(s.chain)
        shouldTryFallback == e.status = None \/ e.status >= 500
        maxFallbacks == Min(Len(fallbackModels), MaxAttempts(config))
    IN  IF s.wrapper = "openai"
        THEN IF s.mi = 0
             THEN IF config.autoFallback /\ Len(fallbackModels) > 0
                     /\ shouldTryFallback
                  THEN Invoke([s EXCEPT !.mi = 1])
                  ELSE ErrorPath(s)
             ELSE IF s.mi < maxFallbacks
                  THEN Invoke([s EXCEPT !.mi = s.mi + 1])
                  ELSE ErrorPath(s)
        ELSE IF s.mi = Len(s.chain) - 1
             THEN ErrorPath(s)
             ELSE Invoke([s EXCEPT !.mi = s.mi + 1, !.i = 0])

OnThrow_wholeChain(s0, e) ==
    LET s == [s0 EXCEPT !.lastError = e]
        fallbackModels == Tail(s.chain)
        shouldTryFallback == e.status = None \/ e.status >= 500
        maxFallbacks == Len(fallbackModels)
    IN  IF s.wrapper = "openai"
        THEN IF s.mi = 0
             THEN IF config.autoFallback /\ Len(fallbackModels) > 0
                     /\ shouldTryFallback
                  THEN Invoke([s EXCEPT !.mi = 1])
                  ELSE ErrorPath(s)
             ELSE IF s.mi < maxFallbacks
                  THEN Invoke([s EXCEPT !.mi = s.mi + 1])
                  ELSE ErrorPath(s)
        ELSE IF s.mi = Len(s.chain) - 1
             THEN ErrorPath(s)
             ELSE Invoke([s EXCEPT !.mi = s.mi + 1, !.i = 0])

\* An attempt threw out of retryWithBackoff (or a fallback attempt failed).
OnThrow(s0, e) ==
    LET s == [s0 EXCEPT !.lastError = e]
        fallbackModels == Tail(s.chain)
        shouldTryFallback == e.status = None \/ e.status >= 500
        maxFallbacks == Min(Len(fallbackModels), MaxAttempts(config))
    IN  IF s.wrapper = "openai"
        THEN IF s.mi = 0
             THEN IF config.autoFallback /\ Len(fallbackModels) > 0
                     /\ shouldTryFallback
                  THEN Invoke([s EXCEPT !.mi = 1])
                  ELSE ErrorPath(s)
             ELSE IF s.mi < maxFallbacks
                  THEN Invoke([s EXCEPT !.mi = s.mi + 1])
                  ELSE ErrorPath(s)
        ELSE IF s.mi = Len(s.chain) - 1
             THEN ErrorPath(s)
             ELSE Invoke([s EXCEPT !.mi = s.mi + 1, !.i = 0])

\* Math.pow(2, n)
RECURSIVE Pow2(_)
Pow2(n) == IF n = 0 THEN 1 ELSE 2 * Pow2(n - 1)

OnAttemptError_retryAll(s0, e) ==
    LET s == [s0 EXCEPT !.retryError = e]
    IN  IF s.i = MaxAttempts(config) - 1
        THEN OnThrow(s, e)
        ELSE [Ev(s, WaitEv(Pow2(s.i) * backoffBase)) EXCEPT
                 !.pc = "backoff", !.wake = now + Pow2(s.i) * backoffBase]

OnAttemptError_flat(s0, e) ==
    LET s == [s0 EXCEPT !.retryError = e]
    IN  IF IsClientError(e) \/ s.i = MaxAttempts(config) - 1
        THEN OnThrow(s, e)
        ELSE [Ev(s, WaitEv(backoffBase)) EXCEPT
                 !.pc = "backoff", !.wake = now + backoffBase]

OnAttemptError_oneMore(s0, e) ==
    LET s == [s0 EXCEPT !.retryError = e]
    IN  IF IsClientError(e) \/ s.i = MaxAttempts(config)
        THEN OnThrow(s, e)
        ELSE [Ev(s, WaitEv(Pow2(s.i) * backoffBase)) EXCEPT
                 !.pc = "backoff", !.wake = now + Pow2(s.i) * backoffBase]

\* retryWithBackoff after a failed attempt (retryError is its lastError).
OnAttemptError(s0, e) ==
    LET s == [s0 EXCEPT !.retryError = e]
    IN  IF IsClientError(e) \/ s.i = MaxAttempts(config) - 1
        THEN OnThrow(s, e)
        ELSE [Ev(s, WaitEv(Pow2(s.i) * backoffBase)) EXCEPT
                 !.pc = "backoff", !.wake = now + Pow2(s.i) * backoffBase]

(***************************************************************************)
(* create: the steps between two suspensions                               *)
(***************************************************************************)
DefaultConfig ==
    [apiKey |-> FALSE, enableCache |-> TRUE, maxRetries |-> defaultMaxRetries,
     middleware |-> {}, autoFallback |-> TRUE, smartRouting |-> TRUE,
     autoOptimize |-> FALSE, costLimit |-> None, routingPolicy |-> NoModel,
     qualityValidator |-> NoVal, isNode |-> TRUE]

\* create(params, options) is called: up to the first suspension. (after
\* notes which calls had returned by then.)
StartFrom(c, Inputs) ==
    /\ call[c].pc = "idle"
    /\ \E inp \in Inputs :
          LET s == [IdleCall EXCEPT
                       !.wrapper = inp.wrapper,
                       !.after = {d \in Calls : call[d].pc = "done"},
                       !.originalModel = inp.model,
                       !.params = [model |-> inp.model, messages |-> inp.messages,
                                   temperature |-> inp.temperature,
                                   max_tokens |-> inp.max_tokens],
                       !.options = [cacheTTL |-> inp.cacheTTL, maxCost |-> inp.maxCost,
                                    fallbackModels |-> inp.fallbackModels]]
          IN  IF s.wrapper = "openai" /\ config.autoOptimize
              THEN OptimizeFrom(c, s, 1, optimizationCache)
              ELSE AfterOptimize(c, s)
    /\ UNCHANGED <<probe, sink, config, now, optimizationCache, apiFailureCount, lastApiFailure, trk>>

\* The optimisation request for message oi settled: with an optimised
\* text (it replaces the content and is cached) or without.
Optimized(content) == [content EXCEPT !.len = (content.len + 1) \div 2, !.ws = 0]

OptimizeAnswer(c) ==
    /\ call[c].pc = "optimizing"
    /\ \E ok \in BOOLEAN :
          LET s == call[c]
              content == s.params.messages[s.oi].content
              oc == IF ok THEN optimizationCache \cup {<<content, Optimized(content)>>}
                    ELSE optimizationCache
              t == IF ok THEN [s EXCEPT !.params.messages[s.oi].content =
                                            Optimized(content)]
                   ELSE s
          IN  /\ optimizationCache' = oc
              /\ OptimizeFrom(c, t, s.oi + 1, oc)
    /\ UNCHANGED <<probe, sink, config, now, apiFailureCount, lastApiFailure, trk>>

\* checkRoutingEnabled settled.
RoutingAnswer(c) ==
    /\ call[c].pc = "routingCheck"
    /\ \E enabled \in BOOLEAN : Route(c, call[c], enabled)
    /\ UNCHANGED <<probe, sink, config, now, optimizationCache, apiFailureCount, lastApiFailure, trk>>

\* The remote cache lookup settled: a hit returns the remote response.
RemoteGetAnswer(c) ==
    /\ call[c].pc = "remoteGet"
    /\ \E hit \in BOOLEAN :
          LET s == call[c]
          IN  call' = [call EXCEPT ![c] =
                  IF hit THEN Resolved(s, [by |-> <<0, 0>>, model |-> NoModel])
                  ELSE Dispatch(s)]
    /\ UNCHANGED <<probe, sink, config, now, cache, optimizationCache, apiFailureCount,
                   lastApiFailure, trk>>

\* The provider call in flight resolved.
ProviderResult(c) ==
    /\ call[c].pc = "calling"
    /\ LET s == call[c]
           model == s.chain[s.mi + 1]
       IN  OnResult(c, [s EXCEPT !.result = [by |-> <<c, Len(s.events)>>,
                                             model |-> model],
                                 !.usedModel = model, !.answered = now])
    /\ UNCHANGED <<probe, sink, config, now, optimizationCache, apiFailureCount, lastApiFailure, trk>>

\* The provider call in flight rejected.
ProviderError(c, Statuses) ==
    /\ call[c].pc = "calling"
    /\ \E status \in Statuses :
          LET s == call[c]
              e == [type |-> "provider", status |-> status, at |-> Len(s.events)]
          IN  call' = [call EXCEPT ![c] =
                  IF s.wrapper = "anthropic" \/ s.mi = 0
                  THEN OnAttemptError(s, e)
                  ELSE OnThrow(s, e)]
    /\ UNCHANGED <<probe, sink, config, now, cache, optimizationCache, apiFailureCount,
                   lastApiFailure, trk>>

BackoffDone_requested(c) ==
    /\ call[c].pc = "backoff"
    /\ now' = Max(now, call[c].wake)
    /\ call' = [call EXCEPT ![c] =
           [Ev(call[c], ProviderEv(call[c].originalModel)) EXCEPT
               !.pc = "calling", !.i = call[c].i + 1]]
    /\ UNCHANGED <<probe, sink, config, cache, optimizationCache, apiFailureCount,
                   lastApiFailure, trk>>

\* The backoff timer fired: the next attempt on the same model.
BackoffDone(c) ==
    /\ call[c].pc = "backoff"
    /\ now' = Max(now, call[c].wake)
    /\ call' = [call EXCEPT ![c] = Invoke([call[c] EXCEPT !.i = call[c].i + 1])]
    /\ UNCHANGED <<probe, sink, config, cache, optimizationCache, apiFailureCount,
                   lastApiFailure, trk>>

\* The quality-gate re-issue against the requested model settled.
ReissueAnswer(c, Statuses) ==
    /\ call[c].pc = "reissue"
    /\ LET s == call[c]
       IN  \/ call' = [call EXCEPT ![c] =
                  Resolved(RunMiddleware(s, "after"),
                           [by |-> <<c, Len(s.events)>>, model |-> s.originalModel])]
           \/ \E status \in Statuses :
                  call' = [call EXCEPT ![c] =
                      Rejected(s, [type |-> "provider", status |-> status,
                                   at |-> Len(s.events)])]
    /\ UNCHANGED <<probe, sink, config, now, cache, optimizationCache, apiFailureCount,
                   lastApiFailure, trk>>

RemoteSetAnswer_lost(c) ==
    /\ call[c].pc = "remoteSet"
    /\ UNCHANGED vars

\* The remote cache store settled (its outcome is ignored).
RemoteSetAnswer(c) ==
    /\ call[c].pc = "remoteSet"
    /\ LET s == call[c]
       IN  call' = [call EXCEPT ![c] =
               StartTrack(s, s.usedModel, TRUE, Resolved(s, s.result))]
    /\ UNCHANGED <<probe, sink, config, now, cache, optimizationCache, apiFailureCount,
                   lastApiFailure, trk>>

\* create returns what it had before trackRun.
Finished(s) ==
    IF s.result # Nothing THEN Resolved(s, s.result) ELSE Rejected(s, s.lastError)

\* The tracking request of a call settled before the 5 s timeout.
TrackAnswer(c, Answers) ==
    /\ call[c].pc = "tracking"
    /\ now < call[c].wake
    /\ UNCHANGED now
    /\ \E answer \in Answers : AfterTrack(answer)
    /\ call' = [call EXCEPT ![c] = Finished(call[c])]
    /\ UNCHANGED <<probe, config, cache, optimizationCache, trk>>

\* The tracking request of a call was aborted by the 5 s timer.
TrackAbort(c) ==
    /\ call[c].pc = "tracking"
    /\ now' = Max(now, call[c].wake)
    /\ AfterTrack("aborted")
    /\ call' = [call EXCEPT ![c] = Finished(call[c])]
    /\ UNCHANGED <<probe, config, cache, optimizationCache, trk>>

(***************************************************************************)
(* Direct calls of the public tracking API (trackError, trackOpenAI, ...), *)
(* each of which is one trackRun                                           *)
(***************************************************************************)
IdleTracker == [pc |-> "idle", wake |-> 0, last |-> "none"]

\* trackRun up to its fetch; `last` tells how the attempt went on.
TrkStart(t) ==
    /\ trk[t].pc = "idle"
    /\ now < MaxTime
    /\ trk' = [trk EXCEPT ![t] =
           IF TrackReaches(config, apiFailureCount, lastApiFailure, now)
           THEN [pc |-> "inflight", wake |-> now + trackTimeout, last |-> "sent"]
           ELSE [pc |-> "idle", wake |-> 0,
                 last |-> IF config.apiKey THEN "skipped" ELSE "nokey"]]
    /\ UNCHANGED <<probe, sink, config, now, cache, optimizationCache, apiFailureCount,
                   lastApiFailure, call>>

TrkAnswer(t, Answers) ==
    /\ trk[t].pc = "inflight"
    /\ now < trk[t].wake
    /\ UNCHANGED now
    /\ \E answer \in Answers :
          /\ AfterTrack(answer)
          /\ trk' = [trk EXCEPT ![t] = [pc |-> "idle", wake |-> 0, last |-> answer]]
    /\ UNCHANGED <<probe, config, cache, optimizationCache, call>>

TrkAbort(t) ==
    /\ trk[t].pc = "inflight"
    /\ now' = Max(now, trk[t].wake)
    /\ AfterTrack("aborted")
    /\ trk' = [trk EXCEPT ![t] = [pc |-> "idle", wake |-> 0, last |-> "aborted"]]
    /\ UNCHANGED <<probe, config, cache, optimizationCache, call>>

\* A direct call of selectOptimalModel / calculateSavings, or a direct use of
\* the cache: the arguments and what was returned.
IdleProbe ==
    [requestedModel |-> NoModel, messages |-> <<>>, recommended |-> NoModel,
     savings |-> Nothing, decision |-> Nothing, costs |-> {},
     actualModel |-> NoModel, validated |-> FALSE, consistent |-> FALSE,
     fallbacks |-> NoModels,
     cacheOp |-> [op |-> "none", key |-> 0, value |-> Nothing, at |-> 0]]

\* The caller picks the requested model.
Request(Models) ==
    /\ probe.requestedModel = NoModel
    /\ \E m \in Models : probe' = [probe EXCEPT !.requestedModel = m]
    /\ UNCHANGED <<config, now, cache, optimizationCache, apiFailureCount,
                   lastApiFailure, call, trk, sink>>

\* The caller builds the conversation.
AddMessageUpTo(Messages, limit) ==
    /\ probe.requestedModel # NoModel
    /\ probe.recommended = NoModel /\ probe.savings = Nothing
    /\ probe.decision = Nothing /\ probe.costs = {}
    /\ Len(probe.messages) < limit
    /\ \E m \in Messages : probe' = [probe EXCEPT !.messages = Append(@, m)]
    /\ UNCHANGED <<config, now, cache, optimizationCache, apiFailureCount,
                   lastApiFailure, call, trk, sink>>

AddMessage(Messages) == AddMessageUpTo(Messages, MaxMessages)

SelectOptimalModel ==
    /\ probe.requestedModel # NoModel
    /\ probe.recommended = NoModel
    /\ probe' = [probe EXCEPT !.recommended =
           selectOptimalModel(config, probe.requestedModel, probe.messages)]
    /\ UNCHANGED <<config, now, cache, optimizationCache, apiFailureCount,
                   lastApiFailure, call, trk, sink>>

CalculateSavings ==
    /\ probe.requestedModel # NoModel
    /\ probe.savings = Nothing
    /\ probe' = [probe EXCEPT !.savings =
           calculateSavings(config, probe.requestedModel, probe.messages)]
    /\ UNCHANGED <<config, now, cache, optimizationCache, apiFailureCount,
                   lastApiFailure, call, trk, sink>>

\* A direct call of QualityDetector.shouldRoute.
ShouldRoute ==
    /\ probe.requestedModel # NoModel
    /\ probe.decision = Nothing
    /\ probe.recommended = NoModel /\ probe.savings = Nothing /\ probe.costs = {}
    /\ probe' = [probe EXCEPT !.decision =
           QD_shouldRoute(probe.requestedModel, probe.messages)]
    /\ UNCHANGED <<config, now, cache, optimizationCache, apiFailureCount,
                   lastApiFailure, call, trk, sink>>

\* A call of estimateCost for one of the models, on the same messages.
EstimateCost(Models) ==
    /\ probe.requestedModel # NoModel
    /\ probe.decision = Nothing
    /\ probe.recommended = NoModel /\ probe.savings = Nothing
    /\ \E m \in Models :
          /\ \A c \in probe.costs : c[1] # m
          /\ probe' = [probe EXCEPT !.costs =
                 @ \cup {<<m, estimateCost(m, probe.messages)>>}]
    /\ UNCHANGED <<config, now, cache, optimizationCache, apiFailureCount,
                   lastApiFailure, call, trk, sink>>

\* getDefaultFallbacks(requestedModel)
GetDefaultFallbacks ==
    /\ probe.requestedModel # NoModel
    /\ probe.fallbacks = NoModels
    /\ probe' = [probe EXCEPT !.fallbacks = getDefaultFallbacks(probe.requestedModel)]
    /\ UNCHANGED <<config, now, cache, optimizationCache, apiFailureCount,
                   lastApiFailure, call, trk, sink>>

\* The provider's response names the model that served the request.
Respond(Models) ==
    /\ probe.requestedModel # NoModel
    /\ probe.actualModel = NoModel
    /\ \E m \in Models : probe' = [probe EXCEPT !.actualModel = m]
    /\ UNCHANGED <<config, now, cache, optimizationCache, apiFailureCount,
                   lastApiFailure, call, trk, sink>>

\* A call of validateModelConsistency(requested, response.model).
ValidateModelConsistency ==
    /\ probe.actualModel # NoModel
    /\ ~probe.validated
    /\ probe' = [probe EXCEPT !.validated = TRUE, !.consistent =
           validateModelConsistency(probe.requestedModel, probe.actualModel)]
    /\ UNCHANGED <<config, now, cache, optimizationCache, apiFailureCount,
                   lastApiFailure, call, trk, sink>>

\* setCache(key, result, ttl); the stored result tells what was stored when.
SetCache(Keys, TTLs) ==
    /\ \E key \in Keys, ttl \in TTLs :
          /\ cache' = setCache(cache, key,
                 [key |-> key, storedAt |-> now, ttl |-> ttl], ttl, now)
          /\ probe' = [probe EXCEPT !.cacheOp =
                 [op |-> "set", key |-> key, value |-> Nothing, at |-> now]]
    /\ UNCHANGED <<config, now, optimizationCache, apiFailureCount,
                   lastApiFailure, call, trk, sink>>

\* getFromCache(key)
GetFromCache(Keys) ==
    /\ \E key \in Keys :
          LET got == getFromCache(cache, key, now)
          IN  /\ cache' = got.cache
              /\ probe' = [probe EXCEPT !.cacheOp =
                     [op |-> "get", key |-> key, value |-> got.value, at |-> now]]
    /\ UNCHANGED <<config, now, optimizationCache, apiFailureCount,
                   lastApiFailure, call, trk, sink>>

\* clearCache()
ClearCache ==
    /\ cache # <<>>
    /\ cache' = <<>>
    /\ probe' = [probe EXCEPT !.cacheOp =
           [op |-> "clear", key |-> 0, value |-> Nothing, at |-> now]]
    /\ UNCHANGED <<config, now, optimizationCache, apiFailureCount,
                   lastApiFailure, call, trk, sink>>

\* Time passes.
Tick(Points) ==
    /\ \E t \in Points : t > now /\ now' = t
    /\ UNCHANGED <<probe, sink, config, cache, optimizationCache, apiFailureCount,
                   lastApiFailure, call, trk>>

(***************************************************************************)
(* Spec: one create call, every configuration and provider behaviour       *)
(***************************************************************************)
Hi == [role |-> "user", content |-> [len |-> 2, ws |-> 0, words |-> {}]]

CloudConfig == [DefaultConfig EXCEPT !.apiKey = TRUE]

MainConfigs ==
    { DefaultConfig,
      CloudConfig,
      [CloudConfig EXCEPT !.costLimit = 1, !.autoOptimize = TRUE],
      [CloudConfig EXCEPT !.costLimit = 1000, !.isNode = FALSE],
      [CloudConfig EXCEPT !.middleware = {"before", "after", "onError"},
                          !.maxRetries = 1],
      [CloudConfig EXCEPT !.qualityValidator = "scores", !.maxRetries = 2],
      [CloudConfig EXCEPT !.qualityValidator = "throws", !.autoFallback = FALSE,
                          !.maxRetries = 0],
      [DefaultConfig EXCEPT !.enableCache = FALSE, !.autoFallback = FALSE,
                            !.smartRouting = FALSE] }

\* estimateCost(gpt-3.5-turbo, <<Hi>>) is 550 and estimateCost(gpt-4, <<Hi>>) 27000
MainInputs ==
    [wrapper : {"openai", "anthropic"}, model : {GPT_4, GPT_35_TURBO},
     messages : {<<Hi>>}, temperature : {None}, max_tokens : {None},
     cacheTTL : {None, 100}, maxCost : {None, 550, 26999},
     fallbackModels : {NoModels, <<GPT_4_TURBO>>}]

InitWith(Configs) ==
    /\ config \in Configs
    /\ now = 0
    /\ cache = <<>>
    /\ optimizationCache = {}
    /\ apiFailureCount = 0
    /\ lastApiFailure = 0
    /\ call = [c \in Calls |-> IdleCall]
    /\ trk = [t \in Trackers |-> IdleTracker]
    /\ sink = [streak |-> 0, lastFailure |-> 0]
    /\ probe = IdleProbe

Init == InitWith(MainConfigs)

\* A step of a call between its start and the tracking request.
Step(c) ==
    \/ OptimizeAnswer(c)
    \/ RoutingAnswer(c)
    \/ RemoteGetAnswer(c)
    \/ ProviderResult(c)
    \/ BackoffDone(c)
    \/ RemoteSetAnswer(c)

Next ==
    \/ StartFrom(1, MainInputs)
    \/ Step(1)
    \/ ProviderError(1, ErrStatuses)
    \/ ReissueAnswer(1, ErrStatuses)
    \/ TrackAnswer(1, TrackAnswers)
    \/ TrackAbort(1)

Spec == Init /\ [][Next]_vars

(***************************************************************************)
(* Properties of one create call (checked under Spec)                      *)
(***************************************************************************)
LastProviderAt(s) == CHOOSE k \in ProviderAt(s) : \A j \in ProviderAt(s) : j <= k
OpenAICalls == {c \in Calls : call[c].wrapper = "openai"}

\* C1: in wrapOpenAI's create, once an attempt on the primary model has
\* rejected with a status in [400,500) the provider is not invoked again
\* (no retry, no fallback model: a rejection of the first attempt leaves
\* exactly one invocation), and create rejects with that same error.
C1_ClientErrorNotRetried ==
    \A c \in OpenAICalls :
        LET s == call[c]
            e == s.retryError
        IN  (e # Nothing /\ e.status \in 400..499)
            => /\ \A k \in ProviderAt(s) :
                     k <= e.at /\ s.events[k].model = s.params.model
               /\ (s.i = 0 => Cardinality(ProviderAt(s)) = 1)
               /\ s.pc \in {"tracking", "done"}
               /\ s.pc = "done"
                      => s.outcome = [kind |-> "rejected", error |-> e]

\* A first attempt answered 400 although fallback models were at hand; the
\* call was tracked and has rejected after a single invocation.
C1_Witness ==
    \E c \in OpenAICalls :
        /\ call[c].pc = "done"
        /\ call[c].retryError # Nothing
        /\ call[c].retryError.status = 400
        /\ call[c].i = 0
        /\ config.autoFallback /\ Len(call[c].chain) > 1
        /\ Cardinality(ProviderAt(call[c])) = 1
        /\ Cardinality(TrackAt(call[c])) = 1
        /\ call[c].outcome.kind = "rejected"

\* The positions of the quality checks of a call that scored below 0.7.
LowScoreAt(s) ==
    {q \in 1..Len(s.events) :
        /\ s.events[q].type = "quality"
        /\ s.events[q].score # None
        /\ s.events[q].score < 70}

\* C3: in wrapOpenAI's create, when the model used differs from the
\* requested one and the response scores below 0.7, the next thing create
\* does is invoke the provider with the originally requested model; nothing
\* follows that invocation but the after hooks (no retry, no wait, no
\* routing, no further quality check, no further invocation), and the
\* outcome of create is the outcome of that second invocation.
C3_QualityGateReissue ==
    \A c \in OpenAICalls :
        LET s == call[c]
        IN  \A q \in LowScoreAt(s) :
               /\ s.originalModel # s.usedModel
               /\ Len(s.events) > q
               /\ s.events[q + 1] = ProviderEv(s.originalModel)
               /\ \A k \in (q + 2)..Len(s.events) : s.events[k] = HookEv("after")
               /\ Len(s.events) <= q + 2
               /\ Cardinality(LowScoreAt(s)) = 1
               /\ s.pc \in {"reissue", "done"}
               /\ s.pc = "done" =>
                     \/ s.outcome = [kind |-> "resolved",
                                     value |-> [by |-> <<c, q + 1>>,
                                                model |-> s.originalModel]]
                     \/ /\ s.outcome.kind = "rejected"
                        /\ s.outcome.error.type = "provider"
                        /\ s.outcome.error.at = q + 1

\* A routed call (gpt-4 served by gpt-3.5-turbo) whose response the injected
\* validator scored 0.69 has resolved with the result of the re-issue.
C3_Witness ==
    \E c \in OpenAICalls :
        LET s == call[c]
        IN  /\ s.pc = "done"
            /\ config.qualityValidator = "scores"
            /\ s.originalModel = GPT_4
            /\ s.usedModel = GPT_35_TURBO
            /\ \E q \in LowScoreAt(s) :
                  /\ s.events[q].score = 69
                  /\ s.outcome = [kind |-> "resolved",
                                  value |-> [by |-> <<c, q + 1>>, model |-> GPT_4]]

\* The calls that have passed routing, whose params.model is the resolved model.
PastRouting == {c \in Calls : call[c].pc \notin {"idle", "optimizing", "routingCheck"}}

\* The ceiling of a call: the per-call maxCost, else the configured
\* costLimit (None: no ceiling).
CeilingOf(s) == IF s.options.maxCost # None THEN s.options.maxCost ELSE config.costLimit

OverCeiling(s) ==
    /\ CeilingOf(s) # None
    /\ estimateCost(s.params.model, s.params.messages) > CeilingOf(s)

CostLimitRejection(s) ==
    s.pc = "done" /\ s.outcome = [kind |-> "rejected", error |-> [type |-> "costLimit"]]

\* C5 as stated: a call whose estimate exceeds its ceiling rejects with the
\* cost-limit error having made no provider invocation and no request at all
\* to the backend.
C5_NoNetworkBeforeCostLimit ==
    \A c \in PastRouting :
        OverCeiling(call[c]) => CostLimitRejection(call[c]) /\ call[c].events = <<>>

\* C5, amended: a call whose estimate (for the resolved model) exceeds its
\* ceiling rejects with the cost-limit error, and only such a call does; at
\* that moment it has made no provider invocation, no remote-cache request,
\* no tracking request, no backoff and run no hook: all it may have sent are
\* wrapOpenAI's prompt-optimisation and routing-check requests.
C5_CostLimitBeforeProvider ==
    \A c \in PastRouting :
        LET s == call[c]
        IN  /\ OverCeiling(s) =>
                 /\ CostLimitRejection(s)
                 /\ \A k \in 1..Len(s.events) :
                       s.events[k] \in {FetchEv("optimize"), FetchEv("routing")}
                 /\ s.wrapper = "anthropic" => s.events = <<>>
            /\ CostLimitRejection(s) => OverCeiling(s)

\* A gpt-4 call over its per-call ceiling was rejected after the routing check
\* (which left the model alone) had been sent.
C5_Witness ==
    \E c \in OpenAICalls :
        /\ CostLimitRejection(call[c])
        /\ call[c].options.maxCost = 26999
        /\ call[c].params.model = GPT_4
        /\ call[c].events = <<FetchEv("routing")>>

\* The calls whose primary model answered after k >= 1 failed attempts.
RetriedToSuccess ==
    {c \in OpenAICalls : call[c].result # Nothing /\ call[c].mi = 0 /\ call[c].i >= 1}

\* C6 as stated: when the primary model fails k times (1 <= k < maxAttempts)
\* and then succeeds, create makes exactly k+1 invocations, all on the
\* primary model, and resolves with the success value.
C6_RetryThenSucceed ==
    \A c \in RetriedToSuccess :
        LET s == call[c]
        IN  /\ Cardinality(ProviderAt(s)) = s.i + 1
            /\ \A k \in ProviderAt(s) : s.events[k].model = s.params.model
            /\ s.pc = "done" => s.outcome = [kind |-> "resolved", value |-> s.result]

\* The quality gate has rejected the response of the call (or the validator threw).
GateFailed(s) ==
    \E q \in 1..Len(s.events) :
        /\ s.events[q].type = "quality"
        /\ s.events[q].score < 70

\* C6, amended: when the primary model fails k times (1 <= k < maxAttempts)
\* and then succeeds, the attempts are exactly k+1 invocations of the primary
\* model, each failure followed by a backoff, and no fallback model is tried;
\* create resolves with the success value unless the primary is a routed
\* model whose response fails the quality gate: then the one further
\* invocation, on the requested model, decides the outcome.
C6_RetryThenSucceedUnlessGate ==
    \A c \in RetriedToSuccess :
        LET s == call[c]
            upTo == {k \in ProviderAt(s) : k <= s.result.by[2]}
            later == ProviderAt(s) \ upTo
        IN  /\ Cardinality(upTo) = s.i + 1
            /\ s.i < (IF config.maxRetries = 0 THEN 3 ELSE config.maxRetries)
            /\ \A k \in upTo : s.events[k].model = s.params.model
            /\ Cardinality(EventsOf(s, {"wait"})) = s.i
            /\ s.result = [by |-> <<c, s.result.by[2]>>, model |-> s.params.model]
            /\ IF GateFailed(s)
               THEN /\ s.originalModel # s.params.model
                    /\ Cardinality(later) <= 1
                    /\ \A k \in later : s.events[k].model = s.originalModel
               ELSE /\ later = {}
                    /\ s.pc = "done" =>
                          s.outcome = [kind |-> "resolved", value |-> s.result]

\* A call retried twice on its primary model and resolved with the third answer.
C6_Witness ==
    \E c \in RetriedToSuccess :
        /\ call[c].pc = "done"
        /\ call[c].i = 2
        /\ Cardinality(ProviderAt(call[c])) = 3
        /\ ~GateFailed(call[c])
        /\ call[c].outcome = [kind |-> "resolved", value |-> call[c].result]

\* The calls all of whose attempts have failed.
AllAttemptsFailed ==
    {c \in Calls : /\ call[c].result = Nothing
                   /\ ProviderAt(call[c]) # {}
                   /\ call[c].pc \notin {"calling", "backoff"}}

\* C8: when the primary attempts and every fallback attempt of a call have
\* failed, the onError hooks (if configured) run once, after the last
\* attempt and before anything else, and create then rejects with the error
\* of the last attempt made along the chain.
C8_LastErrorAfterOnError ==
    \A c \in AllAttemptsFailed :
        LET s == call[c]
            last == LastProviderAt(s)
        IN  /\ s.pc \in {"tracking", "done"}
            /\ "onError" \in config.middleware =>
                  /\ Len(s.events) > last
                  /\ s.events[last + 1] = HookEv("onError")
                  /\ Cardinality({j \in 1..Len(s.events) : s.events[j] = HookEv("onError")}) = 1
            /\ s.lastError # Nothing /\ s.lastError.at = last
            /\ s.pc = "done" => s.outcome = [kind |-> "rejected", error |-> s.lastError]

\* A call with the onError hook whose primary and fallback attempts failed
\* with different errors has rejected with the fallback's.
C8_Witness ==
    \E c \in AllAttemptsFailed :
        LET s == call[c]
        IN  /\ s.pc = "done"
            /\ "onError" \in config.middleware
            /\ s.mi >= 1
            /\ s.retryError.status = 500
            /\ s.outcome.kind = "rejected"
            /\ s.outcome.error.status = None
            /\ s.outcome.error.at = LastProviderAt(s)

\* The provider invocations of a call other than the quality-gate re-issue,
\* and the position of one of them among them.
Attempts(s) ==
    {k \in ProviderAt(s) : ~(k > 1 /\ s.events[k - 1].type = "quality")}
Rank(S, k) == Cardinality({j \in S : j <= k})
\* The invocations that follow the primary model's maxAttempts attempts.
FallbackAt(s) ==
    {k \in Attempts(s) : Rank(Attempts(s), k) > MaxAttempts(config)}

\* C22: in wrapOpenAI's create with fallback enabled, once the last attempt
\* on the primary model has failed with no status or a status >= 500, the
\* fallback models are invoked in chain order, each position once and with
\* no backoff before it, at most min(chain length, maxRetries) of them; the
\* iteration ends at the first success, whose model is the model used, and
\* otherwise only when that many have failed.
C22_FallbackChain ==
    \A c \in OpenAICalls :
        LET s == call[c]
            A == MaxAttempts(config)
            att == Attempts(s)
            fb == FallbackAt(s)
            chainFb == Tail(s.chain)
            limit == Min(Len(chainFb), A)
        IN  (config.autoFallback /\ s.chain # <<>>) =>
              /\ Cardinality(fb) <= limit
              /\ \A k \in fb : s.events[k].model = chainFb[Rank(att, k) - A]
              /\ \A k \in fb : \A w \in EventsOf(s, {"wait"}) : w < k
              /\ ( /\ s.retryError # Nothing
                   /\ Rank(att, s.retryError.at) = A
                   /\ s.retryError.status = None \/ s.retryError.status >= 500
                   /\ limit > 0 )
                 => fb # {}
              /\ (s.result # Nothing /\ s.result.by[2] \in fb) =>
                    /\ s.usedModel = s.events[s.result.by[2]].model
                    /\ \A k \in fb : k <= s.result.by[2]
              /\ (s.result = Nothing /\ fb # {} /\ s.pc # "calling") =>
                    Cardinality(fb) = limit

\* With maxRetries 2 the two attempts on gpt-4 failed, the first fallback
\* (gpt-4o) failed, the second (gpt-4-turbo) answered and is the model used;
\* the third model of the chain was not tried.
C22_Witness ==
    \E c \in OpenAICalls :
        LET s == call[c]
        IN  /\ config.autoFallback /\ config.maxRetries = 2
            /\ s.chain = <<GPT_4, GPT_4O, GPT_4_TURBO, GPT_35_TURBO>>
            /\ Cardinality(FallbackAt(s)) = 2
            /\ s.retryError # Nothing /\ s.retryError.status = 500
            /\ s.lastError # Nothing /\ s.lastError.at \in FallbackAt(s)
            /\ s.result # Nothing /\ s.result.model = GPT_4_TURBO
            /\ s.usedModel = GPT_4_TURBO
            /\ s.pc = "done" /\ s.outcome.kind = "resolved"

\* C23: in wrapAnthropic's create, an attempt on the primary model rejected
\* with a status in [400,500) is the call's last provider invocation (no
\* retry, no fallback model), and create rejects with that error.
C23_AnthropicClientErrorFinal ==
    \A c \in Calls \ OpenAICalls :
        LET s == call[c]
            e == s.retryError
        IN  ( /\ e # Nothing
              /\ e.status \in 400..499
              /\ \A k \in ProviderAt(s) :
                    k <= e.at => s.events[k].model = s.params.model )
            => /\ \A k \in ProviderAt(s) : k <= e.at
               /\ s.pc \in {"tracking", "done"}
               /\ s.pc = "done"
                      => s.outcome = [kind |-> "rejected", error |-> e]

\* C24: wrapOpenAI's create rejects only over the cost ceiling, with the
\* primary model's client error, or with the last error when the primary's
\* attempts and every fallback attempt failed; a call one of whose primary
\* or fallback invocations succeeded does not reject.
C24_RejectsOnlyOnFailure ==
    \A c \in OpenAICalls :
        LET s == call[c]
        IN  (s.pc = "done" /\ s.outcome.kind = "rejected")
            => \/ CostLimitRejection(s)
               \/ /\ s.retryError # Nothing /\ IsClientError(s.retryError)
                  /\ s.result = Nothing
                  /\ s.outcome.error = s.retryError
               \/ /\ s.result = Nothing /\ ProviderAt(s) # {}
                  /\ s.outcome.error = s.lastError

\* C25: a call whose quality gate failed and whose re-issue succeeded has,
\* when it returns, stored the re-issued result in the cache (where the call
\* uses the cache) and made exactly one tracking attempt, which with an API
\* key and a closed breaker is one request to the sink.
C25_ReissueCachedAndTracked ==
    \A c \in OpenAICalls :
        LET s == call[c]
        IN  (s.pc = "done" /\ LowScoreAt(s) # {} /\ s.outcome.kind = "resolved")
            => /\ UsesLocalCache(s) =>
                     \E i \in 1..Len(cache) : cache[i].result = s.outcome.value
               /\ config.apiKey => Cardinality(TrackAt(s)) = 1

\* C26: in both wrappers every entry of the cache is keyed on the model
\* that produced the stored result: the fallback model when a fallback
\* served the call, not the primary (resolved) model.
C26_StoredUnderServingModel ==
    \A i \in 1..Len(cache) : cache[i].key[2] = cache[i].result.model

\* C32: the savings reported to tracking for a successful wrapOpenAI call
\* are the estimate for the requested model minus the estimate for the model
\* used, and they are zero whenever the router returned the requested model.
C32_SavingsOnlyFromRouting ==
    \A c \in OpenAICalls :
        LET s == call[c]
        IN  \A k \in TrackAt(s) :
               s.events[k].data.success =>
                  /\ s.events[k].data.savings =
                        estimateCost(s.originalModel, s.params.messages)
                        - estimateCost(s.usedModel, s.params.messages)
                  /\ s.params.model = s.originalModel =>
                        s.events[k].data.savings = 0

\* A call is inside retryWithBackoff while it attempts the primary model
\* (wrapOpenAI) or any model of modelsToTry (wrapAnthropic).
InRetry(s) == s.wrapper = "anthropic" \/ (s.wrapper = "openai" /\ s.mi = 0)

\* The attempt in flight in s failed in the step to t.
AttemptFailed(s, t) ==
    /\ s.pc = "calling" /\ InRetry(s)
    /\ t.retryError # Nothing /\ t.retryError.at = Len(s.events)

\* C33: retryWithBackoff makes at most maxAttempts attempts; after failed
\* attempt i that is neither the last one nor a 4xx error it waits exactly
\* 2^i seconds and then makes attempt i+1 on the same model; it does not wait
\* before the first attempt, after the last one or before rethrowing a 4xx
\* error, and the error of the last attempt is the one it rethrows.
C33_Backoff ==
    [][\A c \in Calls :
          LET s == call[c]
              t == call'[c]
              A == MaxAttempts(config)
              e == t.retryError
              ms == Pow2(s.i) * 1000
          IN  /\ s.pc \in {"calling", "backoff"} => s.i < A
              /\ (s.pc # "backoff" /\ t.pc = "calling") =>
                    /\ EventsOf(t, {"wait"}) = EventsOf(s, {"wait"})
                    /\ now' = now
              /\ AttemptFailed(s, t) =>
                    IF ~IsClientError(e) /\ s.i < A - 1
                    THEN /\ t.pc = "backoff"
                         /\ t.events = Append(s.events, WaitEv(ms))
                         /\ t.wake = now + ms
                         /\ t.i = s.i /\ t.mi = s.mi
                    ELSE /\ t.pc # "backoff"
                         /\ EventsOf(t, {"wait"}) = EventsOf(s, {"wait"})
                         /\ t.lastError = e
              /\ s.pc = "backoff" =>
                    \/ t = s
                    \/ /\ now' = s.wake
                       /\ t.pc = "calling" /\ t.i = s.i + 1 /\ t.mi = s.mi
                       /\ t.events = Append(s.events, ProviderEv(s.chain[s.mi + 1]))
              /\ t.pc = "backoff" => AttemptFailed(s, t) \/ t = s
      ]_vars

\* Two attempts failed and were waited after 1 and 2 seconds; the third and
\* last attempt failed as well and its error was rethrown with no third wait.
C33_Witness ==
    \E c \in Calls :
        LET s == call[c]
        IN  /\ MaxAttempts(config) = 3
            /\ s.i = 2
            /\ s.retryError # Nothing
            /\ s.retryError.at \in ProviderAt(s)
            /\ Rank(ProviderAt(s), s.retryError.at) = 3
            /\ s.lastError = s.retryError
            /\ {s.events[k].ms : k \in EventsOf(s, {"wait"})} = {1000, 2000}
            /\ Cardinality(EventsOf(s, {"wait"})) = 2
            /\ now = 3000

\* C35: when a call has a cost ceiling, every provider invocation it makes
\* (primary, fallback or quality-gate re-issue) is for a model whose
\* estimated cost for the call's messages does not exceed the ceiling.
C35_EveryInvocationUnderCeiling ==
    \A c \in PastRouting :
        LET s == call[c]
        IN  CeilingOf(s) # None =>
               \A k \in ProviderAt(s) :
                   estimateCost(s.events[k].model, s.params.messages) <= CeilingOf(s)

\* The responses of a call that the quality gate scored below 0.7: each is
\* the result of the provider invocation that precedes the check.
RejectedResponses(c) ==
    LET s == call[c]
    IN  {[by |-> <<c, k>>, model |-> s.events[k].model] :
            k \in {j \in ProviderAt(s) :
                     \E q \in LowScoreAt(s) :
                        j < q /\ \A i \in ProviderAt(s) : ~(j < i /\ i < q)}}

\* C36: in wrapOpenAI's create, a response of a model other than the
\* requested one that scored below 0.7 at the quality gate is never stored in
\* the in-process cache and is never the value create returns.
C36_LowScoreNeverServed ==
    \A c \in OpenAICalls :
        LET s == call[c]
        IN  \A r \in RejectedResponses(c) :
               /\ r.model # s.originalModel
               /\ \A i \in 1..Len(cache) : cache[i].result # r
               /\ s.pc = "done" /\ s.outcome.kind = "resolved" => s.outcome.value # r

\* A routed response scored below 0.7 in a call that uses the cache; the
\* call returned the re-issued response and the cache holds nothing.
C36_Witness ==
    \E c \in OpenAICalls :
        LET s == call[c]
        IN  /\ RejectedResponses(c) # {}
            /\ UsesLocalCache(s)
            /\ s.pc = "done" /\ s.outcome.kind = "resolved"
            /\ s.outcome.value.model = s.originalModel
            /\ cache = <<>>

\* C38: one wrapOpenAI create call invokes the provider at most
\* maxRetries + min(chain length, maxRetries) + 1 times: at most maxRetries
\* times for the primary model, then at most once per tried fallback model,
\* and at most once for the quality-gate re-issue.
C38_InvocationBound ==
    \A c \in OpenAICalls :
        LET s == call[c]
            A == MaxAttempts(config)
            limit == Min(Len(s.chain) - 1, A)
            reissues == ProviderAt(s) \ Attempts(s)
            primary == Attempts(s) \ FallbackAt(s)
        IN  s.chain # <<>> =>
              /\ Cardinality(ProviderAt(s)) <= A + limit + 1
              /\ Cardinality(primary) <= A
              /\ \A k \in primary : s.events[k].model = s.chain[1]
              /\ Cardinality(FallbackAt(s)) <= limit
              /\ Cardinality(reissues) <= 1

\* The bound is met: three attempts on the primary model, three fallback
\* models and the re-issue, seven invocations in all.
C38_Witness ==
    \E c \in OpenAICalls :
        LET s == call[c]
        IN  /\ MaxAttempts(config) = 3
            /\ Len(s.chain) = 4
            /\ Cardinality(ProviderAt(s)) = 7
            /\ Cardinality(ProviderAt(s) \ Attempts(s)) = 1
            /\ s.pc = "done"

(***************************************************************************)
(* SpecRoute: direct calls of the router and of the savings calculator     *)
(***************************************************************************)
Plain(n) == [len |-> n, ws |-> 0, words |-> {}]

RouteContents ==
    { Plain(0), Plain(2), Plain(49), Plain(50), Plain(100),
      [len |-> 50, ws |-> 0, words |-> {"code"}],
      [len |-> 40, ws |-> 0, words |-> {"legal", "analyze"}] }

RouteMessages == [role : {"user", "system"}, content : RouteContents]

RouteModels == {GPT_4, GPT_4_TURBO, GPT_35_TURBO, CLAUDE_3_OPUS}

RouteConfigs == {DefaultConfig, [DefaultConfig EXCEPT !.routingPolicy = GPT_4O]}

InitRoute == InitWith(RouteConfigs)

NextRoute ==
    \/ Request(RouteModels)
    \/ AddMessage(RouteMessages)
    \/ SelectOptimalModel
    \/ CalculateSavings

SpecRoute == InitRoute /\ [][NextRoute]_vars

\* A conversation of at most 2 messages, none of them a system message,
\* whose contents total fewer than 100 characters.
SimpleConversation(messages) ==
    /\ Len(messages) <= 2
    /\ \A i \in 1..Len(messages) : messages[i].role # "system"
    /\ SumLen(messages) < 100

\* C10: with the default configuration, for the requested model gpt-4 and
\* every simple conversation, selectOptimalModel returns gpt-3.5-turbo, and
\* calculateSavings recommends it and reports a savingsPercentage above 90.
C10_SimpleGpt4ToGpt35 ==
    (/\ config = DefaultConfig
     /\ probe.requestedModel = GPT_4
     /\ SimpleConversation(probe.messages))
    => /\ probe.recommended # NoModel => probe.recommended = GPT_35_TURBO
       /\ probe.savings # Nothing =>
             /\ probe.savings.recommendedModel = GPT_35_TURBO
             /\ PercentageAbove(probe.savings, 90)

\* Both were called for gpt-4 with a two-message conversation of 99
\* characters that mentions code.
C10_Witness ==
    /\ config = DefaultConfig
    /\ probe.requestedModel = GPT_4
    /\ Len(probe.messages) = 2
    /\ SumLen(probe.messages) = 99
    /\ "code" \in TextWords(probe.messages)
    /\ SimpleConversation(probe.messages)
    /\ probe.recommended = GPT_35_TURBO
    /\ probe.savings # Nothing
    /\ PercentageAbove(probe.savings, 97)

(***************************************************************************)
(* SpecTrack: the tracking API and the circuit breaker                     *)
(***************************************************************************)
TrackConfigs == {[CloudConfig EXCEPT !.maxRetries = 1, !.enableCache = FALSE]}

\* The instants around the end of the breaker's timeout.
BreakerPoints ==
    {t \in {lastApiFailure + circuitBreakerTimeout - 1,
            lastApiFailure + circuitBreakerTimeout} : t <= MaxTime}

InitTrack == InitWith(TrackConfigs)

NextTrack ==
    \/ \E t \in Trackers : TrkStart(t) \/ TrkAnswer(t, TrackAnswers) \/ TrkAbort(t)
    \/ apiFailureCount > 0 /\ Tick(BreakerPoints)

SpecTrack == InitTrack /\ [][NextTrack]_vars

\* C4: a tracking attempt started when the sink's last 5 answers were
\* failures and fewer than 60 s have passed since the last of them does not
\* invoke the sink; an attempt started once 60 s have passed since the last
\* failure, or after a success has reset the count, does.
C4_BreakerSkipsThenResumes ==
    [][\A t \in Trackers :
          (trk[t].pc = "idle" /\ trk'[t] # trk[t])
          => IF sink.streak >= 5 /\ now - sink.lastFailure < 60000
             THEN trk'[t].pc = "idle" /\ trk'[t].last = "skipped"
             ELSE trk'[t].pc = "inflight" /\ trk'[t].last = "sent"]_vars

\* After 5 failures in a row one attempt was skipped, and another, started
\* once the 60 s were over, is on its way to the sink.
C4_Witness ==
    \E t, u \in Trackers :
        /\ trk[t].last = "skipped" /\ trk[t].pc = "idle"
        /\ trk[u].pc = "inflight"
        /\ sink.streak = 5
        /\ now - sink.lastFailure >= 60000

\* C21: once the sink has answered a tracking attempt with 401 or 403, no
\* attempt started afterwards invokes the sink, whatever the time, and the
\* 401/403 answer itself leaves the circuit breaker's failure count as it was.
C21_UnauthorizedDisablesTracking ==
    [][/\ \A t, u \in Trackers :
             (trk[t].last = "unauthorized" /\ trk[u].pc = "idle"
                 /\ trk'[u] # trk[u])
             => trk'[u].pc = "idle"
       /\ \A t \in Trackers :
             (trk[t].pc = "inflight" /\ trk'[t].last = "unauthorized")
             => apiFailureCount' = apiFailureCount]_vars

\* C30: whatever the interleaving of the tracking attempts, each attempt
\* that completes with a 2xx answer sets the failure count to zero and
\* leaves the failure time; each that completes otherwise (non-2xx answer,
\* network error, abandoned at the 5 s timeout) adds exactly one and stamps
\* the failure time with the time of completion; a step in which no attempt
\* completes (an attempt is sent, is skipped by the breaker, time passes)
\* changes neither. The count is thus the number of failures completed since
\* the last completed success.
C30_CountTracksFailures ==
    [][/\ \A t \in Trackers :
             (trk[t].pc = "inflight" /\ trk'[t].pc = "idle")
             => IF trk'[t].last = "ok"
                THEN /\ apiFailureCount' = 0
                     /\ lastApiFailure' = lastApiFailure
                ELSE /\ trk'[t].last \in {"unauthorized", "failed", "neterr", "aborted"}
                     /\ apiFailureCount' = apiFailureCount + 1
                     /\ lastApiFailure' = now'
                     /\ trk'[t].last = "aborted" => now' >= trk[t].wake
       /\ (\A t \in Trackers : ~(trk[t].pc = "inflight" /\ trk'[t].pc = "idle"))
             => /\ apiFailureCount' = apiFailureCount
                /\ lastApiFailure' = lastApiFailure]_vars

\* Six failures are counted before any breaker timeout can have passed: the
\* sixth is an attempt that was in flight when the fifth opened the breaker,
\* and an attempt made since was skipped.
C30_Witness ==
    /\ apiFailureCount = circuitBreakerThreshold + 1
    /\ now < circuitBreakerTimeout
    /\ \E t, u \in Trackers :
          /\ trk[t].last = "skipped"
          /\ trk[u].last \in {"failed", "neterr", "aborted"}
          /\ trk[u].pc = "idle"

\* C39: a failure count of 5 or more is lowered only by a tracking success
\* (to 0), never by time passing. With attempts made one after the other and
\* a sink that keeps failing, an attempt started within 60 s of the last
\* failure is skipped, the first one started after that reaches the sink,
\* and its failure opens the breaker again for the next 60 s.
C39_BreakerReopens ==
    [][/\ apiFailureCount' < apiFailureCount =>
             /\ apiFailureCount' = 0
             /\ \E t \in Trackers : trk[t].pc = "inflight" /\ trk'[t].last = "ok"
       /\ trk' = trk => apiFailureCount' = apiFailureCount
                        /\ lastApiFailure' = lastApiFailure
       /\ \A t \in Trackers :
             (/\ apiFailureCount >= circuitBreakerThreshold
              /\ \A u \in Trackers \ {t} : trk[u].pc = "idle"
              /\ trk'[t] # trk[t])
             => IF trk[t].pc = "idle"
                THEN IF now - lastApiFailure < circuitBreakerTimeout
                     THEN trk'[t].pc = "idle" /\ trk'[t].last = "skipped"
                     ELSE trk'[t].pc = "inflight"
                ELSE trk'[t].last # "ok" =>
                        /\ apiFailureCount' = apiFailureCount + 1
                        /\ lastApiFailure' = now'
                        /\ isApiDown(apiFailureCount', lastApiFailure', now')
                        /\ isApiDown(apiFailureCount', lastApiFailure',
                                     now' + circuitBreakerTimeout - 1)
                        /\ ~isApiDown(apiFailureCount', lastApiFailure',
                                      now' + circuitBreakerTimeout)
      ]_vars

\* Two timeouts have passed since the breaker opened: after each of them one
\* attempt reached the sink and failed, and the attempt that followed the
\* second of these was skipped.
C39_Witness ==
    /\ apiFailureCount >= circuitBreakerThreshold + 2
    /\ lastApiFailure >= 2 * circuitBreakerTimeout
    /\ sink.lastFailure = lastApiFailure
    /\ trk[1].pc = "idle" /\ trk[1].last = "skipped"
    /\ trk[2].pc = "idle" /\ trk[2].last = "none"

(***************************************************************************)
(* SpecSide: one create call beside a failing tracking sink                *)
(***************************************************************************)
SideConfigs ==
    { [CloudConfig EXCEPT !.maxRetries = 2, !.isNode = FALSE],
      [CloudConfig EXCEPT !.maxRetries = 1, !.costLimit = 26999,
                          !.autoOptimize = TRUE] }

SideInputs ==
    [wrapper : {"openai", "anthropic"}, model : {GPT_4},
     messages : {<<Hi>>}, temperature : {None}, max_tokens : {None},
     cacheTTL : {None}, maxCost : {None},
     fallbackModels : {<<GPT_4_TURBO>>}]

InitSide == InitWith(SideConfigs)

NextSide ==
    \/ TrkStart(1)
    \/ TrkAnswer(1, {"failed"})
    \/ apiFailureCount > 0 /\ Tick(BreakerPoints)
    \/ StartFrom(1, SideInputs)
    \/ Step(1)
    \/ ProviderError(1, {400, 500})
    \/ ReissueAnswer(1, {500})
    \/ TrackAnswer(1, TrackAnswers)
    \/ TrackAbort(1)

SpecSide == InitSide /\ [][NextSide]_vars


\* The call was answered by the remote cache.
RemoteHit(s) ==
    s.pc = "done" /\ s.outcome.kind = "resolved" /\ s.outcome.value.by = <<0, 0>>

\* C7: whatever the tracking sink answers, and whether or not the breaker
\* lets the request through, a call that got a result resolves with it and
\* a call all of whose attempts failed rejects with the last error; create
\* rejects with nothing but a provider error, the cost limit or the
\* validator's error; the tracking request comes after every provider
\* invocation of the call; and a call that made no provider invocation was
\* rejected by the cost limit or served from a cache.
C7_TrackingNeverInterferes ==
    \A c \in Calls :
        LET s == call[c]
        IN  /\ \A k \in TrackAt(s) : \A j \in ProviderAt(s) : j < k
            /\ Cardinality(TrackAt(s)) <= 1
            /\ s.pc = "tracking" => TrackAt(s) = {Len(s.events)}
            /\ s.pc = "done" =>
                  /\ (s.result # Nothing /\ ~GateFailed(s))
                        => s.outcome = [kind |-> "resolved", value |-> s.result]
                  /\ (s.result = Nothing /\ s.lastError # Nothing)
                        => s.outcome = [kind |-> "rejected", error |-> s.lastError]
                  /\ s.outcome.kind = "rejected"
                        => s.outcome.error.type \in {"provider", "costLimit", "validator"}
                  /\ ProviderAt(s) = {}
                        => \/ CostLimitRejection(s)
                           \/ RemoteHit(s)
                           \/ \E k \in 1..Len(s.events) : s.events[k].type = "hit"

\* With the breaker open (5 failures, the last one less than 60 s ago) a
\* call was made, invoked the provider, skipped its tracking request and
\* resolved with the provider's result.
C7_Witness ==
    \E c \in Calls :
        LET s == call[c]
        IN  /\ s.pc = "done"
            /\ sink.streak = 5 /\ now - sink.lastFailure < 60000
            /\ s.start >= sink.lastFailure
            /\ ProviderAt(s) # {}
            /\ TrackAt(s) = {}
            /\ s.result # Nothing
            /\ s.outcome = [kind |-> "resolved", value |-> s.result]

(***************************************************************************)
(* SpecCache: two create calls sharing the in-process cache                *)
(***************************************************************************)
CacheConfigs ==
    { [CloudConfig EXCEPT !.maxRetries = 1],
      [CloudConfig EXCEPT !.maxRetries = 1, !.isNode = FALSE],
      [DefaultConfig EXCEPT !.maxRetries = 1, !.enableCache = FALSE] }

CacheInputs ==
    [wrapper : {"openai", "anthropic"}, model : {GPT_4, GPT_35_TURBO},
     messages : {<<Hi>>}, temperature : {None}, max_tokens : {None},
     cacheTTL : {None, 100}, maxCost : {None},
     fallbackModels : {<<GPT_4O>>}]

\* The instants at which an entry of the cache is about to expire and has
\* just expired.
ExpiryPoints ==
    UNION {{cache[i].timestamp + cache[i].ttl, cache[i].timestamp + cache[i].ttl + 1} :
              i \in 1..Len(cache)}

InitCache == InitWith(CacheConfigs)

\* No call is in flight.
Quiet == \A c \in Calls : call[c].pc \in {"idle", "done"}

NextCache ==
    \/ \E c \in Calls :
          \/ StartFrom(c, CacheInputs)
          \/ RoutingAnswer(c)
          \/ RemoteGetAnswer(c)
          \/ ProviderResult(c)
          \/ ProviderError(c, {500})
          \/ ReissueAnswer(c, {500})
          \/ RemoteSetAnswer(c)
          \/ TrackAnswer(c, {"ok"})
    \/ Quiet /\ Tick(ExpiryPoints)

SpecCache == InitCache /\ [][NextCache]_vars

\* The calls made the same request: provider, requested model, message
\* contents, temperature and max_tokens.
SameRequest(s, t) ==
    /\ s.wrapper = t.wrapper
    /\ s.originalModel = t.originalModel
    /\ s.params.messages = t.params.messages
    /\ s.params.temperature = t.params.temperature
    /\ s.params.max_tokens = t.params.max_tokens

\* The time to live of what a call caches: its cacheTTL, by default one hour.
TTLOf(s) == IF s.options.cacheTTL # None THEN s.options.cacheTTL ELSE 3600000

\* C2: with caching enabled, of two calls making the same request, the
\* second made after the first resolved with the provider's answer (and not
\* answered by the remote cache): if the second consults the cache within
\* the TTL of the first's answer it does not invoke the provider, and if it
\* does so after the TTL it does invoke it.
C2_CacheDeterminism ==
    \A c, d \in Calls :
        LET s == call[c]
            t == call[d]
        IN  (/\ c \in t.after
             /\ config.enableCache
             /\ ~config.autoOptimize
             /\ s.outcome.kind = "resolved"
             /\ s.result # Nothing
             /\ SameRequest(s, t)
             /\ t.pc = "done"
             /\ ~RemoteHit(t))
            => IF t.checked - s.answered <= TTLOf(s)
               THEN ProviderAt(t) = {}
               ELSE ProviderAt(t) # {}

\* C9: when the in-process cache holds a value under the key built from the
\* resolved model, create returns that value at once: the hit is the last
\* thing the call does, only the routing check and prompt optimisation may
\* precede it, there is no provider invocation and no tracking request, and
\* the value is one an earlier call stored.
C9_CacheHitShortCircuits ==
    \A d \in Calls :
        LET s == call[d]
        IN  \A k \in 1..Len(s.events) :
               s.events[k].type = "hit"
               => /\ k = Len(s.events)
                  /\ s.pc = "done"
                  /\ s.outcome = [kind |-> "resolved", value |-> s.events[k].value]
                  /\ ProviderAt(s) = {}
                  /\ TrackAt(s) = {}
                  /\ \A j \in 1..(k - 1) :
                        s.events[j] \in {FetchEv("optimize"), FetchEv("routing")}
                  /\ s.events[k].key[1] = s.wrapper
                  /\ s.events[k].key[2] = s.params.model
                  /\ \E c \in Calls \ {d} : call[c].result = s.events[k].value

\* With tracking configured, a gpt-4 call routed to gpt-3.5-turbo was served
\* what an earlier call had stored under the gpt-3.5-turbo key.
C9_Witness ==
    \E d \in Calls :
        LET s == call[d]
        IN  /\ s.pc = "done"
            /\ config.apiKey
            /\ s.wrapper = "openai"
            /\ s.originalModel = GPT_4
            /\ s.params.model = GPT_35_TURBO
            /\ s.outcome.kind = "resolved"
            /\ s.outcome.value.by[1] \in Calls \ {d}
            /\ s.events = <<FetchEv("routing"), HitEv(LookupKey(s), s.outcome.value)>>

(***************************************************************************)
(* SpecAdvice: direct calls of the router, the savings calculator, the     *)
(* quality detector and the cost estimator, for every family of models     *)
(***************************************************************************)
\* An identifier no table has a key for.
MISTRAL == <<"mistral">>

AdviceModels ==
    {GPT_4, GPT_4O, GPT_35_TURBO, CLAUDE_3_OPUS, CLAUDE_3_HAIKU,
     GEMINI_15_FLASH, DEEPSEEK_V3, MISTRAL}

AdviceContents ==
    { Plain(2), Plain(600),
      [len |-> 30, ws |-> 0, words |-> {"medical"}],
      [len |-> 30, ws |-> 0, words |-> {"code"}],
      [len |-> 40, ws |-> 0, words |-> {"comprehensive", "analyze"}] }

AdviceMessages == [role : {"user", "system"}, content : AdviceContents]

\* The models whose estimates are compared.
CostModels == {GPT_4, GPT_35_TURBO}

InitAdvice == InitWith({DefaultConfig})

NextAdvice ==
    \/ Request(AdviceModels)
    \/ AddMessage(AdviceMessages)
    \/ SelectOptimalModel
    \/ CalculateSavings
    \/ ShouldRoute
    \/ EstimateCost(CostModels)

SpecAdvice == InitAdvice /\ [][NextAdvice]_vars

\* C11: with the default configuration, whatever the requested model and
\* the messages, calculateSavings reports savings >= 0: the recommended
\* model's estimate never exceeds the requested model's.
C11_SavingsNeverNegative ==
    probe.savings # Nothing
    => /\ probe.savings.savings >= 0
       /\ probe.savings.optimizedCost <= probe.savings.currentCost

\* None of the rules for a vision, gpt or claude model decides the request,
\* so that selectOptimalModel reaches its generic step.
NoProviderRule(requestedModel, messages) ==
    LET complexity == estimateComplexity(messages)
        taskType == detectTaskType(messages)
        gpt4 == Includes(requestedModel, GPT) /\ Includes(requestedModel, GPT_4)
        claude == Includes(requestedModel, CLAUDE)
    IN  /\ ~Includes(requestedModel, VISION)
        /\ ~(gpt4 /\ complexity = "simple")
        /\ ~(requestedModel = GPT_4 /\ complexity = "medium")
        /\ ~(gpt4 /\ "coding" \in taskType)
        /\ ~(claude /\ Includes(requestedModel, CLAUDE_3_OPUS)
                    /\ complexity \in {"simple", "medium"})
        /\ ~(claude /\ Includes(requestedModel, CLAUDE_3_SONNET)
                    /\ complexity = "simple")

\* C40: in the generic step of selectOptimalModel a QualityDetector decision
\* is applied only when the detector's complexity is below 0.3 and the prompt
\* is not critical; a medium-complexity decision has confidence 0.8 exactly,
\* which is not above the bar, and is not applied. The step returns
\* claude-3-haiku, gpt-3.5-turbo or the requested model.
C40_GenericStepOnlySimple ==
    LET m == probe.requestedModel
        d == QD_shouldRoute(m, probe.messages)
        complexity == QD_estimateComplexity(probe.messages)
    IN  (probe.recommended # NoModel /\ NoProviderRule(m, probe.messages)) =>
           /\ probe.recommended \in {CLAUDE_3_HAIKU, GPT_35_TURBO, m}
           /\ probe.recommended # m =>
                 /\ complexity < 3 /\ ~QD_isCritical(probe.messages)
                 /\ probe.recommended = d.targetModel
           /\ (complexity >= 3 /\ complexity < 6 /\ ~QD_isCritical(probe.messages)) =>
                 d.confidence = 80 /\ probe.recommended = m

\* The generic step was reached with a medium-complexity decision to route
\* to another model, and the requested model was returned.
C40_Witness ==
    LET m == probe.requestedModel
        d == QD_shouldRoute(m, probe.messages)
    IN  /\ probe.recommended = m
        /\ NoProviderRule(m, probe.messages)
        /\ d.shouldRoute /\ d.targetModel # m /\ d.confidence = 80

\* The criticality keywords of QualityDetector.isCritical.
CriticalWords ==
    {"critical", "important", "medical", "legal", "financial", "safety",
     "production", "accurate", "precise"}

\* C13: with no override policy, selectOptimalModel returns the requested
\* model unchanged whenever the message contents contain a criticality
\* keyword, whatever the requested model and the complexity.
C13_CriticalNeverRouted ==
    (/\ probe.recommended # NoModel
     /\ TextWords(probe.messages) \cap CriticalWords # {})
    => probe.recommended = probe.requestedModel

\* C14: QualityDetector.shouldRoute, for the requested model gpt-4 and
\* messages containing a criticality keyword, returns shouldRoute = false,
\* targetModel = the requested model and confidence = 0.9.
C14_ShouldRouteCritical ==
    (/\ probe.decision # Nothing
     /\ probe.requestedModel = GPT_4
     /\ TextWords(probe.messages) \cap CriticalWords # {})
    => probe.decision = [shouldRoute |-> FALSE, targetModel |-> GPT_4,
                         confidence |-> 90]

\* shouldRoute was called for gpt-4 with a short conversation that mentions
\* "medical" and nothing that raises the complexity: without the keyword
\* the conversation would have been routed as a simple one.
C14_Witness ==
    /\ probe.requestedModel = GPT_4
    /\ probe.decision # Nothing
    /\ Len(probe.messages) = 2
    /\ TextWords(probe.messages) = {"medical"}
    /\ QD_estimateComplexity(probe.messages) < 3
    /\ ~probe.decision.shouldRoute
    /\ probe.decision.confidence = 90

\* C15: for every message list, the empty one included, the estimate for
\* gpt-4 is strictly greater than the estimate for gpt-3.5-turbo.
C15_Gpt4CostsMore ==
    \A c, d \in probe.costs :
        (c[1] = GPT_4 /\ d[1] = GPT_35_TURBO) => c[2] > d[2]

\* Both estimates were made for the empty message list, where each token
\* count is the floor of one token.
C15_Witness ==
    /\ probe.messages = <<>>
    /\ <<GPT_4, 9000>> \in probe.costs
    /\ <<GPT_35_TURBO, 200>> \in probe.costs

(***************************************************************************)
(* SpecComplex: the savings calculator on long conversations               *)
(***************************************************************************)
ComplexContents ==
    { Plain(2), Plain(500),
      [len |-> 100, ws |-> 0, words |-> {"code"}],
      [len |-> 200, ws |-> 0, words |-> {"comprehensive", "analyze"}] }

ComplexMessages == [role : {"user"}, content : ComplexContents]

ComplexModels == {GPT_4, GPT_4O}

InitComplex == InitWith({DefaultConfig})

NextComplex ==
    \/ Request(ComplexModels)
    \/ AddMessageUpTo(ComplexMessages, MaxTurns)
    \/ SelectOptimalModel
    \/ CalculateSavings

SpecComplex == InitComplex /\ [][NextComplex]_vars

\* A conversation whose contents total 500 characters or more, or of more
\* than 5 messages.
ComplexConversation(messages) ==
    SumLen(messages) >= 500 \/ Len(messages) > 5

\* C12: with the default configuration, for the requested model gpt-4 and
\* every complex conversation, the model calculateSavings recommends is
\* gpt-4 or gpt-4o.
C12_ComplexStaysPremium ==
    (/\ probe.savings # Nothing
     /\ probe.requestedModel = GPT_4
     /\ ComplexConversation(probe.messages))
    => probe.savings.recommendedModel \in {GPT_4, GPT_4O}

(***************************************************************************)
(* Properties of the cache when enableCache is false (under SpecCache)     *)
(***************************************************************************)
\* The positions of the in-process cache hits and of the remote-cache
\* requests among the events of a call.
HitAt(s) == {k \in 1..Len(s.events) : s.events[k].type = "hit"}
RemoteCacheAt(s) ==
    {k \in 1..Len(s.events) :
        s.events[k] \in {FetchEv("cacheGet"), FetchEv("cacheSet")}}

C29_LastWriteWins ==
    [][/\ \A c \in Calls :
             LET s == call'[c]
                 mine == {j \in 1..Len(cache') : cache'[j].result = s.result}
             IN  (call[c].result = Nothing /\ s.result # Nothing /\ mine # {})
                 => \A j \in mine : \A k \in 1..Len(cache') :
                        cache'[k].key = cache'[j].key => k = j
       /\ \A i \in 1..Len(cache) : \A j \in 1..Len(cache') :
             (cache'[j].key = cache[i].key /\ cache'[j].result # cache[i].result)
             => \E c \in Calls : /\ call[c].result = Nothing
                                 /\ call'[c].result = cache'[j].result]_vars

\* Two wrapOpenAI calls with the same key ran side by side: both looked the
\* cache up before either had stored, both invoked the provider, both
\* resolved, each with its own answer, and the cache holds one entry for
\* the key, with the answer of one of them.
C29_Witness ==
    \E c, d \in Calls :
        LET s == call[c]
            t == call[d]
            held == {i \in 1..Len(cache) : cache[i].key = StoreKey(s)}
        IN  /\ c # d
            /\ config.enableCache
            /\ s.wrapper = "openai" /\ t.wrapper = "openai"
            /\ s.pc = "done" /\ t.pc = "done"
            /\ s.after = {} /\ t.after = {}
            /\ LookupKey(s) = LookupKey(t) /\ StoreKey(s) = StoreKey(t)
            /\ HitAt(s) = {} /\ HitAt(t) = {}
            /\ ProviderAt(s) # {} /\ ProviderAt(t) # {}
            /\ s.outcome = [kind |-> "resolved", value |-> s.result]
            /\ t.outcome = [kind |-> "resolved", value |-> t.result]
            /\ s.result # t.result
            /\ Cardinality(held) = 1
            /\ \A i \in held : cache[i].result = t.result

(***************************************************************************)
(* SpecInstant: tracking calls and one create call, without an API key     *)
(* and, for contrast, with one                                             *)
(***************************************************************************)
InstantConfigs ==
    { [DefaultConfig EXCEPT !.maxRetries = 2],
      [DefaultConfig EXCEPT !.maxRetries = 1, !.autoOptimize = TRUE],
      [CloudConfig EXCEPT !.maxRetries = 1] }

InstantInputs ==
    [wrapper : {"openai", "anthropic"}, model : {GPT_4},
     messages : {<<Hi>>}, temperature : {None}, max_tokens : {None},
     cacheTTL : {None}, maxCost : {None, 550},
     fallbackModels : {NoModels}]

InitInstant == InitWith(InstantConfigs)

NextInstant ==
    \/ TrkStart(1)
    \/ TrkAnswer(1, {"ok", "failed"})
    \/ StartFrom(1, InstantInputs)
    \/ Step(1)
    \/ ProviderError(1, {400, 500})
    \/ ReissueAnswer(1, {500})
    \/ TrackAnswer(1, {"ok", "unauthorized"})
    \/ TrackAbort(1)

SpecInstant == InitInstant /\ [][NextInstant]_vars

BackendAt(s) == {k \in 1..Len(s.events) : s.events[k].type = "fetch"}

\* C18: with the default configuration (no API key) and no per-call
\* options, a call through wrapOpenAI sends no request to the CostLens
\* backend; only the provider is contacted.
C18_InstantModeNoBackend ==
    \A c \in Calls :
        LET s == call[c]
        IN  (/\ config = DefaultConfig
             /\ s.wrapper = "openai"
             /\ s.options = [cacheTTL |-> None, maxCost |-> None,
                             fallbackModels |-> NoModels])
            => BackendAt(s) = {}

(***************************************************************************)
(* SpecEnforce: validateModelConsistency on a request and its response     *)
(***************************************************************************)
EnforceModels ==
    {GPT_4, GPT_4O, GPT_4_TURBO, GPT_35_TURBO, CLAUDE_3_OPUS,
     CLAUDE_35_SONNET, CLAUDE_3_SONNET, CLAUDE_3_HAIKU, MISTRAL}

InitEnforce == InitWith({DefaultConfig})

NextEnforce ==
    \/ Request(EnforceModels)
    \/ Respond(EnforceModels)
    \/ ValidateModelConsistency

SpecEnforce == InitEnforce /\ [][NextEnforce]_vars

\* The two families of models, each from its highest model to its lowest.
Families ==
    { <<GPT_4, GPT_4O, GPT_4_TURBO, GPT_35_TURBO>>,
      <<CLAUDE_3_OPUS, CLAUDE_35_SONNET, CLAUDE_3_SONNET, CLAUDE_3_HAIKU>> }

\* b is a lower model than a in the hierarchy.
Lower(a, b) ==
    \E f \in Families : \E i, j \in 1..Len(f) : i < j /\ f[i] = a /\ f[j] = b

\* C19: validateModelConsistency(requested, actual) is true when actual
\* equals requested or is an upgrade over it, and false when actual is a
\* downgrade of requested (a lower model in the hierarchy).
C19_FalseMeansDowngrade ==
    probe.validated
    => /\ (probe.actualModel = probe.requestedModel
           \/ Lower(probe.actualModel, probe.requestedModel))
          => probe.consistent
       /\ Lower(probe.requestedModel, probe.actualModel) => ~probe.consistent

(***************************************************************************)
(* SpecKey: two create calls whose requests differ in whitespace, message  *)
(* order, temperature or max_tokens                                        *)
(***************************************************************************)
KeyConfigs ==
    {[DefaultConfig EXCEPT !.smartRouting = FALSE, !.isNode = FALSE,
                           !.maxRetries = 1]}

\* A question, the same question with two blanks around it, an answer.
Question == [role |-> "user", content |-> [len |-> 5, ws |-> 0, words |-> {}]]
Padded == [role |-> "user", content |-> [len |-> 7, ws |-> 2, words |-> {}]]
Answer == [role |-> "assistant", content |-> [len |-> 9, ws |-> 0, words |-> {}]]

\* temperature is in tenths
KeyInputs ==
    [wrapper : {"openai", "anthropic"}, model : {GPT_4},
     messages : {<<Question>>, <<Padded>>, <<Question, Answer>>, <<Answer, Question>>},
     temperature : {None, 0, 7, 10}, max_tokens : {None, 100},
     cacheTTL : {None}, maxCost : {None}, fallbackModels : {NoModels}]

InitKey == InitWith(KeyConfigs)

NextKey ==
    \E c \in {1, 2} :
        \/ StartFrom(c, KeyInputs)
        \/ ProviderResult(c)

SpecKey == InitKey /\ [][NextKey]_vars

\* The ordered sequence of (role, whitespace-trimmed content) of a request.
TrimmedMessages(params) ==
    [i \in 1..Len(params.messages) |->
        <<params.messages[i].role,
          params.messages[i].content.len - params.messages[i].content.ws,
          params.messages[i].content.words>>]

\* The temperature in effect: 0.7 when unspecified.
EffectiveTemperature(params) ==
    IF params.temperature = None THEN 7 ELSE params.temperature

\* The two requests agree on provider, model, messages, effective
\* temperature and max_tokens.
SameFingerprint(s, t) ==
    /\ s.wrapper = t.wrapper
    /\ s.params.model = t.params.model
    /\ TrimmedMessages(s.params) = TrimmedMessages(t.params)
    /\ EffectiveTemperature(s.params) = EffectiveTemperature(t.params)
    /\ s.params.max_tokens = t.params.max_tokens

\* C20: two create calls through the same wrapper look the cache up under
\* the same key exactly when their requests agree on provider, model, the
\* ordered (role, trimmed content) messages, effective temperature and
\* max_tokens.
C20_SameKeyIffSameFingerprint ==
    \A c, d \in Calls :
        (/\ call[c].pc # "idle" /\ call[d].pc # "idle"
         /\ call[c].wrapper = call[d].wrapper)
        => (LookupKey(call[c]) = LookupKey(call[d])
            <=> SameFingerprint(call[c], call[d]))

(***************************************************************************)
(* SpecLRU: the cache filled to its ceiling                                *)
(***************************************************************************)
\* The workload stores the distinct keys 1, 2, ... at one instant until the
\* cache is one entry short of its maximum; from there on stores of the
\* oldest key and of new keys, lookups and a later instant interleave freely.
NearCeiling == Len(cache) >= maxCacheSize - 1

LRUKeys ==
    IF NearCeiling THEN {1} \cup (maxCacheSize..MaxKeys)
    ELSE {Len(cache) + 1} \cap 1..MaxKeys

InitLRU == InitWith({DefaultConfig})

NextLRU ==
    \/ SetCache(LRUKeys, {defaultTTL})
    \/ NearCeiling /\ GetFromCache({1, 2})
    \/ NearCeiling /\ Tick({1})
    \/ ClearCache

SpecLRU == InitLRU /\ [][NextLRU]_vars

\* The step is a set (of probe'.cacheOp.key).
SetStep ==
    /\ probe'.cacheOp.op = "set"
    /\ probe'.cacheOp # probe.cacheOp \/ cache' # cache

\* C27: the cache never holds more than 1000 entries. A set that finds fewer
\* than 1000 removes nothing (the other entries stay where they are); one
\* that finds 1000 or more removes, besides the old entry of its own key,
\* 200 entries (199 when the old entry of its key is itself one of the 200
\* oldest), none of them accessed later than any entry it keeps, and leaves
\* the entries it keeps as they were. Every set leaves its own key present
\* once, stored and accessed at the time of the set.
C27_CacheBounded ==
    [][/\ Len(cache') <= maxCacheSize
       /\ SetStep =>
             LET key == probe'.cacheOp.key
                 own == {i \in 1..Len(cache) : cache[i].key = key}
                 others == {i \in 1..Len(cache) : cache[i].key # key}
             IN  /\ IF Len(cache) < maxCacheSize
                    THEN /\ \A i \in others : cache'[i] = cache[i]
                         /\ Len(cache') = Len(cache) + (IF own = {} THEN 1 ELSE 0)
                    ELSE LET keysAfter == {cache'[j].key : j \in 1..Len(cache')}
                             entriesAfter == {cache'[j] : j \in 1..Len(cache')}
                             gone == {i \in others : cache[i].key \notin keysAfter}
                             keptTimes == {cache[i].lastAccessed : i \in others \ gone}
                             goneTimes == {cache[i].lastAccessed : i \in gone}
                         IN  /\ Cardinality(keysAfter) = Len(cache')
                             /\ Cardinality(gone) \in {199, 200}
                             /\ Cardinality(gone) = 199 =>
                                   \E i \in own : \A t \in keptTimes :
                                       cache[i].lastAccessed <= t
                             /\ \A g \in goneTimes : \A t \in keptTimes : g <= t
                             /\ \A i \in others \ gone : cache[i] \in entriesAfter
                             /\ Len(cache') = Cardinality(others \ gone) + 1
                 /\ Cardinality({j \in 1..Len(cache') : cache'[j].key = key}) = 1
                 /\ \E j \in 1..Len(cache') :
                       /\ cache'[j].key = key
                       /\ cache'[j].timestamp = now
                       /\ cache'[j].lastAccessed = now]_vars

\* With 1000 entries in the cache, key 1 looked up after the others were
\* stored, a new key was set: 801 entries remain, key 1 among them and keys
\* 2..201 gone.
C27_Witness ==
    /\ Len(cache) = maxCacheSize - 199
    /\ probe.cacheOp.op = "set" /\ probe.cacheOp.key > maxCacheSize
    /\ cache[1].key = 1 /\ cache[1].lastAccessed > cache[1].timestamp
    /\ cache[2].key = 202
    /\ cache[Len(cache)].key = probe.cacheOp.key

(***************************************************************************)
(* SpecGet: lookups around the expiry of entries                           *)
(***************************************************************************)
InitGet == InitWith({DefaultConfig})

\* Two keys, lifetimes of 2 and 4, the instants 0 to 6.
NextGet ==
    \/ SetCache({1, 2}, {2, 4})
    \/ GetFromCache({1, 2})
    \/ ClearCache
    \/ Tick(1..6)

SpecGet == InitGet /\ [][NextGet]_vars

\* The step is a get (of probe'.cacheOp.key, returning probe'.cacheOp.value).
GetStep ==
    /\ probe'.cacheOp.op = "get"
    /\ probe'.cacheOp # probe.cacheOp \/ cache' # cache

\* C28: a get of an absent key misses and changes nothing; a get of an entry
\* stored more than ttl ago misses and removes that entry only; any other
\* get returns the stored result and changes nothing but that entry's
\* lastAccessed, which becomes the time of the get. So whatever is returned
\* was stored for this key at most ttl ago, however often it was hit before.
C28_GetFrame ==
    [][GetStep =>
          LET key == probe'.cacheOp.key
              value == probe'.cacheOp.value
              at == {i \in 1..Len(cache) : cache[i].key = key}
          IN  /\ at = {} => value = Nothing /\ cache' = cache
              /\ \A i \in at :
                    IF now - cache[i].timestamp > cache[i].ttl
                    THEN /\ value = Nothing
                         /\ cache' = SelectSeq(cache, LAMBDA e : e.key # key)
                    ELSE /\ value = cache[i].result
                         /\ Len(cache') = Len(cache)
                         /\ \A j \in 1..Len(cache) : j # i => cache'[j] = cache[j]
                         /\ cache'[i].lastAccessed = now
                         /\ cache'[i].timestamp = cache[i].timestamp
                         /\ cache'[i].ttl = cache[i].ttl
                         /\ cache'[i].key = key
                         /\ cache'[i].result = cache[i].result
              /\ value # Nothing =>
                    /\ value.key = key
                    /\ now - value.storedAt <= value.ttl]_vars

\* An entry with a ttl of 2 was hit exactly 2 after it was stored, the last
\* instant at which it can be; the other entry has not been accessed.
C28_Witness ==
    /\ probe.cacheOp.op = "get" /\ probe.cacheOp.value # Nothing
    /\ probe.cacheOp.value.ttl = 2
    /\ probe.cacheOp.at = probe.cacheOp.value.storedAt + 2
    /\ Len(cache) = 2
    /\ \E i, j \in 1..2 :
          /\ cache[i].key = probe.cacheOp.key
          /\ cache[i].lastAccessed = probe.cacheOp.at
          /\ cache[i].timestamp = probe.cacheOp.value.storedAt
          /\ j # i /\ cache[j].lastAccessed = cache[j].timestamp

(***************************************************************************)
(* SpecPolicy: the router with an override policy                          *)
(***************************************************************************)
\* The policy is absent, throws, returns null, the empty string, a model of
\* the tables or a string no table knows; smart routing is on or off.
PolicyConfigs ==
    {[DefaultConfig EXCEPT !.routingPolicy = p, !.smartRouting = r] :
        p \in {NoModel, <<"throws">>, <<"null">>, <<>>, GPT_4O, MISTRAL},
        r \in BOOLEAN}

\* The requested models: one of them a vision model.
PolicyModels ==
    {GPT_4, <<"gpt", "-", "4", "-", "vision">>, CLAUDE_3_OPUS, GEMINI_15_PRO}

InitPolicy == InitWith(PolicyConfigs)

NextPolicy ==
    \/ Request(PolicyModels)
    \/ AddMessage(RouteMessages)
    \/ SelectOptimalModel

SpecPolicy == InitPolicy /\ [][NextPolicy]_vars

\* What selectOptimalModel returns when no policy is configured.
WithoutPolicy ==
    selectOptimalModel([config EXCEPT !.routingPolicy = NoModel],
                       probe.requestedModel, probe.messages)

\* C31 as stated: a configured policy is consulted before every built-in
\* rule; any string it returns is the result, and when it throws or returns
\* null the result is the one obtained with no policy configured.
C31_PolicyFirst ==
    probe.recommended # NoModel =>
        IF config.routingPolicy \in {NoModel, <<"throws">>, <<"null">>}
        THEN probe.recommended = WithoutPolicy
        ELSE probe.recommended = config.routingPolicy

\* C31, amended: with smart routing on, a non-empty string returned by the
\* policy is the result, before every built-in rule, and when the policy
\* throws or returns null or the empty string the result is the one obtained
\* with no policy configured; with smart routing off the requested model is
\* returned whatever the policy.
C31_PolicyFirstWhenRouting ==
    probe.recommended # NoModel =>
        IF ~config.smartRouting THEN probe.recommended = probe.requestedModel
        ELSE IF config.routingPolicy \in {NoModel, <<"throws">>, <<"null">>, <<>>}
        THEN probe.recommended = WithoutPolicy
        ELSE probe.recommended = config.routingPolicy

\* For a vision model, which the first built-in rule never routes, the
\* policy's answer, a string no table knows, was returned.
C31_Witness ==
    /\ config.routingPolicy = MISTRAL /\ config.smartRouting
    /\ Includes(probe.requestedModel, VISION)
    /\ probe.recommended = MISTRAL

(***************************************************************************)
(* SpecTables: the price table and the fallback table, looked up for the   *)
(* requested model                                                         *)
(***************************************************************************)
\* The declared keys of both tables, identifiers that extend a key, and
\* identifiers no key is part of.
TableModels ==
    {FallbackTable[i][1] : i \in 1..Len(FallbackTable)}
    \cup {PricingTable[i][1] : i \in 1..Len(PricingTable)}
    \cup {GPT_4O \o <<"-">> \o <<"mini">>, GPT_4_TURBO \o <<"-">> \o <<"preview">>,
          MISTRAL, <<"gpt">>, <<>>}

InitTables == InitWith({DefaultConfig})

NextTables ==
    \/ Request(TableModels)
    \/ AddMessageUpTo({Hi}, 2)
    \/ EstimateCost({probe.requestedModel})
    \/ GetDefaultFallbacks

SpecTables == InitTables /\ [][NextTables]_vars

\* The keys of a table that are part of the identifier, the longest of
\* them, and the value the table declares for a key.
MatchingKeys(table, model) ==
    {table[i][1] : i \in {j \in 1..Len(table) : Includes(model, table[j][1])}}
LongestKey(table, model) ==
    CHOOSE k \in MatchingKeys(table, model) :
        \A j \in MatchingKeys(table, model) : Len(j) <= Len(k)
Declared(table, key) ==
    table[CHOOSE i \in 1..Len(table) : table[i][1] = key][2]
CostAt(pricing, messages) ==
    estimateTokens(messages, "input") * pricing.input
    + estimateTokens(messages, "output") * pricing.output

\* C34: both tables resolve an identifier to the entry of its longest
\* matching key, so a declared key resolves to its own entry; an identifier
\* matching no key is priced at {input 1.0, output 1.0} and has an empty
\* fallback chain.
C34_LongestKeyWins ==
    LET m == probe.requestedModel
    IN  /\ \A c \in probe.costs :
              c[2] = CostAt(IF MatchingKeys(PricingTable, m) = {}
                            THEN [input |-> 100, output |-> 100]
                            ELSE Declared(PricingTable, LongestKey(PricingTable, m)),
                            probe.messages)
        /\ probe.fallbacks # NoModels =>
              probe.fallbacks = IF MatchingKeys(FallbackTable, m) = {} THEN <<>>
                                ELSE Declared(FallbackTable, LongestKey(FallbackTable, m))

(***************************************************************************)
(* SpecLive: one create call whose provider calls, backend calls and       *)
(* timers all settle                                                       *)
(***************************************************************************)
\* Whatever the call is waiting on settles: a backend answer, the provider's
\* result or error, a backoff or abort timer firing.
Settles(c) ==
    \/ Step(c)
    \/ ProviderError(c, ErrStatuses)
    \/ ReissueAnswer(c, ErrStatuses)
    \/ TrackAnswer(c, TrackAnswers)
    \/ TrackAbort(c)

SpecLive == Init /\ [][Next]_vars /\ WF_vars(Settles(1))

\* C37: every create call that was started ends, resolved or rejected, and
\* on the way each of its steps adds to what it has done, so that no state
\* of the call is visited twice.
C37_CreateTerminates ==
    /\ \A c \in Calls : (call[c].pc # "idle") ~> (call[c].pc = "done")
    /\ [][\A c \in Calls :
             call'[c] # call[c] =>
                /\ call[c].pc # "done"
                /\ \/ Len(call'[c].events) > Len(call[c].events)
                   \/ call'[c].pc = "done"]_vars

\* A call that went through every kind of wait (routing check, remote cache
\* lookup, two backoffs, three failed attempts, a fallback, the remote store
\* and the tracking request) has ended.
C37_Witness ==
    /\ call[1].pc = "done"
    /\ Cardinality(EventsOf(call[1], {"wait"})) = 2
    /\ Cardinality(ProviderAt(call[1])) = 4
    /\ TrackAt(call[1]) # {}
    /\ \E k \in 1..Len(call[1].events) : call[1].events[k] = FetchEv("cacheSet")
    /\ \E k \in 1..Len(call[1].events) : call[1].events[k] = FetchEv("routing")

====
